---- MODULE Spec2Model ----
(***************************************************************************)
(* Forecast pipeline of cripto_traker: the single-flight job runner        *)
(* (services/jobs.py), the model registry key (services/model_registry.py),*)
(* the chunk-size / validation-split resolver (services/rnn.py,            *)
(* services/global_training.py) and the global training / inference        *)
(* engines (services/global_training.py, services/global_inference.py),    *)
(* and the HTTP clients (services/coingecko.py, services/coincap.py).      *)
(*                                                                         *)
(* Specifications:                                                         *)
(*   Spec        the job runner: request threads calling start_job and the *)
(*               background threads running _run_job, interleaved at the   *)
(*               granularity of lock acquisitions and statements.          *)
(*   SpecStatus  the job runner with one request thread calling start_job  *)
(*               and one polling get_job_status.                           *)
(*   SpecLive    the job runner with one request thread, under the         *)
(*               fairness the thread scheduler gives.                      *)
(*   SpecWrites  forecast jobs storing their rows while the request        *)
(*               handler delete_global_model_run is served.                *)
(*   SpecKey     canonical_model_key applied to pairs of hyperparameter    *)
(*               dicts built in different insertion orders.                *)
(*   SpecSizing  the chunk-size resolution of _train_rnn (per asset) and   *)
(*               of train_global_model._resolve_sizing (global).           *)
(*   SpecValSplit  _resolve_val_split on its own arguments.                *)
(*   SpecTrain   one call of train_global_model on a store of price        *)
(*               histories of different lengths.                           *)
(*   SpecForecast  train_global_model and predict_with_global_model calls  *)
(*               one after another on the same store.                      *)
(*   SpecRegistry  repeated train_global_model calls, new rows and         *)
(*               retrains in place, on the forecast_model_runs table.      *)
(*   SpecRoute   the routes recalculate_lstm / recalculate_gru resolving   *)
(*               the run to forecast from.                                 *)
(*   SpecLoad    load_global_model on every combination of present,        *)
(*               missing and unreadable files of a run.                    *)
(*   SpecFit     train_global_model followed statement by statement:       *)
(*               fit, retry without validation, save, commit.              *)
(*   SpecWarm    warm-started retrains on a registry whose weight files    *)
(*               may be missing.                                           *)
(*   SpecMerge   the rows _compute_forecast builds from the points the     *)
(*               library returns.                                          *)
(*   SpecDelete  training calls and deletions of runs on one registry.     *)
(*   SpecHttp    one call of a client's _get and of the method calling it; *)
(*               SpecHttpLive adds the fairness of the calling thread.     *)
(***************************************************************************)
EXTENDS Integers, Sequences, FiniteSets, TLC

VARIABLES
    \* ---- services/jobs.py ------------------------------------------------
    JOBS,       \* _JOBS: job_key -> job object (NoJob when the key is absent)
    jobOrder,   \* insertion order of the keys of _JOBS (dict iteration order)
    lock,       \* holder of _JOB_LOCK
    cpc,        \* request thread -> its position inside start_job
    call,       \* request thread -> locals of its start_job call
    ret,        \* request thread -> what its last start_job call returned
    thr,        \* background thread (one per created job object) -> its state
    nextObj,    \* number of job objects created so far
    nextTask,   \* number of start_job calls made so far (each passes its own task)
    ran,        \* task -> number of times the runner invoked it
    outcome,    \* task -> how the start_job call that passed it ended
    clock,      \* the wall clock read by _now_iso()
    \* ---- services/model_registry.py: canonical_model_key -----------------
    environ,    \* os.environ["DARTS_WORK_DIR"] ("" when unset)
    kpc,        \* "input" before the two calls, "called" after them
    kargs,      \* scope, family, cell type, horizon, transform passed to both calls
    khp,        \* the two hyperparameter dicts passed, in insertion order
    kout,       \* what canonical_model_key returned for each of the two
    \* ---- chunk-size and validation-split resolution ------------------------
    szpc,       \* "input" before the resolver ran, "done" after it
    szIn,       \* the arguments the resolver is given
    szOut,      \* what it resolved
    \* ---- training and forecasting: database tables and artifact files ----
    prices,         \* prices table: asset -> its rows [date, price]
    runs,           \* forecast_model_runs table: the run with id i at index i
    files,          \* saved model artifacts [path, model]
    lstm_forecasts, \* lstm_forecasts table
    gru_forecasts,  \* gru_forecasts table
    opResult,       \* the last train / predict call: arguments and result
    nOps            \* number of train / predict calls made so far

jobVars == <<JOBS, jobOrder, lock, cpc, call, ret, thr, nextObj, nextTask, ran, outcome, clock>>

keyVars == <<environ, kpc, kargs, khp, kout>>

szVars == <<szpc, szIn, szOut>>

storeVars == <<prices, runs, files, lstm_forecasts, gru_forecasts, opResult, nOps>>

vars == <<jobVars, keyVars, szVars, storeVars>>

(***************************************************************************)
(* Bounds                                                                  *)
(***************************************************************************)
MaxCalls == 3       \* start_job calls in one behaviour
MaxClock == 1       \* latest reading of the wall clock

\* two request threads of the web server: enough for any two calls to overlap
Callers == {1, 2}
\* the request thread that starts jobs and the one that polls their status
Starters == {1}
Pollers == {2}
Tasks == 1..MaxCalls
Objs == 1..MaxCalls
Keys == {"lstm:1", "gru:1"}

\* the value of an expression evaluated once: the element of a one-element set
Only(S) == CHOOSE v \in S : TRUE

NoneVal == <<"None">>
IntVal(n) == <<"int", n>>
NoJob == [state |-> "absent"]

\* JOB_LABELS of the routes: the label the callers pass for a key.
LabelOf(k) == IF k = "lstm:1" THEN "LSTM" ELSE "GRU"

LockFree == <<"free", 0>>
ByCaller(c) == <<"caller", c>>
ByThread(t) == <<"thread", t>>

\* What a task does when it is invoked: it returns a value or raises.
TaskResults == {NoneVal, IntVal(0), IntVal(7)}
TaskErrors == {"", " boom "}

(***************************************************************************)
(* services/jobs.py                                                        *)
(***************************************************************************)
\* _now_iso(): the readings the clock can give now; time never runs backwards
now_iso == {n \in clock..(clock + 1) : n <= MaxClock}

\* a scan that gives up after the first job of the table
FirstRunningHeadOnly(jobs, order) ==
    IF order = <<>> THEN NoJob
    ELSE IF jobs[Head(order)].state = "running" THEN jobs[Head(order)]
    ELSE NoJob

RECURSIVE FirstRunning(_, _)
FirstRunning(jobs, order) ==
    IF order = <<>> THEN NoJob
    ELSE IF jobs[Head(order)].state = "running" THEN jobs[Head(order)]
    ELSE FirstRunning(jobs, Tail(order))

\* _find_running_job(): the first job, in dict order, whose state is running.
find_running_job == FirstRunning(JOBS, jobOrder)

\* the status dict start_job returns when another key is running
BusyStatus(k, running_job) ==
    [kind |-> "busy", job_key |-> k, state |-> "busy", oid |-> 0,
     message |-> <<running_job.label, "update already running.">>,
     active_job_key |-> running_job.job_key]

\* a reference to a job object, as start_job returns it
JobRef(job) ==
    [kind |-> "job", job_key |-> job.job_key, state |-> job.state, oid |-> job.oid,
     message |-> job.message, active_job_key |-> ""]

NoRet == [kind |-> "none", job_key |-> "", state |-> "", oid |-> 0,
          message |-> <<>>, active_job_key |-> ""]

\* the job dict start_job builds (jobs.py lines 47-57)
NewJob(k, oid, task, now) ==
    [state |-> "running", job_key |-> k, label |-> LabelOf(k),
     message |-> <<LabelOf(k), "update running.">>,
     result |-> NoneVal, error |-> NoneVal,
     started_at |-> now, finished_at |-> NoneVal,
     oid |-> oid, task |-> task]

NoCall == [key |-> "", task |-> 0, running_job |-> NoJob, oid |-> 0]
NoThread == [pc |-> "none", key |-> "", task |-> 0,
             result |-> NoneVal, exc |-> NoneVal, error_message |-> NoneVal,
             records |-> {}, replaced |-> {}]

\* a lock that excludes nobody
CanAcquireNoLock(p) == TRUE

\* `with _JOB_LOCK:` may be entered by process p
CanAcquire(p) == lock = LockFree

JobsInit ==
    /\ JOBS = [k \in Keys |-> NoJob]
    /\ jobOrder = <<>>
    /\ lock = LockFree
    /\ cpc = [c \in Callers |-> "idle"]
    /\ call = [c \in Callers |-> NoCall]
    /\ ret = [c \in Callers |-> NoRet]
    /\ thr = [t \in Objs |-> NoThread]
    /\ nextObj = 0
    /\ nextTask = 0
    /\ ran = [t \in Tasks |-> 0]
    /\ outcome = [t \in Tasks |-> "none"]
    /\ clock = 0

\* a request thread enters start_job(job_key, job_type, label, target) and
\* passes line 28, `with _JOB_LOCK`; until then it has no effect
StartJobAcquire(c, k) ==
    /\ cpc[c] = "idle"
    /\ nextTask < MaxCalls
    /\ CanAcquire(ByCaller(c))
    /\ lock' = ByCaller(c)
    /\ nextTask' = nextTask + 1
    /\ call' = [call EXCEPT ![c] = [NoCall EXCEPT !.key = k, !.task = nextTask + 1]]
    /\ cpc' = [cpc EXCEPT ![c] = "find"]
    /\ ret' = [ret EXCEPT ![c] = NoRet]
    /\ outcome' = [outcome EXCEPT ![nextTask + 1] = "pending"]
    /\ UNCHANGED <<JOBS, jobOrder, thr, nextObj, ran, clock>>

\* line 29: running_job = _find_running_job()
StartJobFind(c) ==
    /\ cpc[c] = "find"
    /\ call' = [call EXCEPT ![c].running_job = find_running_job]
    /\ cpc' = [cpc EXCEPT ![c] = "decide"]
    /\ UNCHANGED <<JOBS, jobOrder, lock, ret, thr, nextObj, nextTask, ran, outcome, clock>>

\* lines 30-41: another key is running: return the busy status
StartJobBusy(c) ==
    /\ cpc[c] = "decide"
    /\ call[c].running_job # NoJob
    /\ call[c].running_job.job_key # call[c].key
    /\ ret' = [ret EXCEPT ![c] = BusyStatus(call[c].key, call[c].running_job)]
    /\ outcome' = [outcome EXCEPT ![call[c].task] = "busy"]
    /\ lock' = IF lock = ByCaller(c) THEN LockFree ELSE lock
    /\ cpc' = [cpc EXCEPT ![c] = "idle"]
    /\ UNCHANGED <<JOBS, jobOrder, call, thr, nextObj, nextTask, ran, clock>>

\* the same call without the idempotency check: the running record is replaced
StartJobExistingRestart(c) ==
    /\ cpc[c] = "decide"
    /\ ~(call[c].running_job # NoJob /\ call[c].running_job.job_key # call[c].key)
    /\ JOBS[call[c].key] # NoJob
    /\ JOBS[call[c].key].state = "running"
    /\ nextObj < MaxCalls
    /\ nextObj' = nextObj + 1
    /\ JOBS' = [JOBS EXCEPT ![call[c].key] =
                   NewJob(call[c].key, nextObj + 1, call[c].task, clock)]
    /\ call' = [call EXCEPT ![c].oid = nextObj + 1]
    /\ lock' = IF lock = ByCaller(c) THEN LockFree ELSE lock
    /\ cpc' = [cpc EXCEPT ![c] = "spawn"]
    /\ outcome' = [outcome EXCEPT ![call[c].task] = "existing"]
    /\ UNCHANGED <<jobOrder, ret, thr, nextTask, ran, clock>>

\* lines 43-45: the key's own job is running: return the existing object
StartJobExisting(c) ==
    /\ cpc[c] = "decide"
    /\ ~(call[c].running_job # NoJob /\ call[c].running_job.job_key # call[c].key)
    /\ JOBS[call[c].key] # NoJob
    /\ JOBS[call[c].key].state = "running"
    /\ ret' = [ret EXCEPT ![c] = JobRef(JOBS[call[c].key])]
    /\ outcome' = [outcome EXCEPT ![call[c].task] = "existing"]
    /\ lock' = IF lock = ByCaller(c) THEN LockFree ELSE lock
    /\ cpc' = [cpc EXCEPT ![c] = "idle"]
    /\ UNCHANGED <<JOBS, jobOrder, call, thr, nextObj, nextTask, ran, clock>>

\* lines 47-58: build the running job and store it under the key
StartJobCreate(c) ==
    /\ cpc[c] = "decide"
    /\ ~(call[c].running_job # NoJob /\ call[c].running_job.job_key # call[c].key)
    /\ ~(JOBS[call[c].key] # NoJob /\ JOBS[call[c].key].state = "running")
    /\ nextObj' = nextObj + 1
    /\ \E now \in now_iso :
          /\ clock' = now
          /\ JOBS' = [JOBS EXCEPT ![call[c].key] =
                         NewJob(call[c].key, nextObj + 1, call[c].task, now)]
    /\ jobOrder' = IF JOBS[call[c].key] = NoJob THEN Append(jobOrder, call[c].key)
                   ELSE jobOrder
    /\ call' = [call EXCEPT ![c].oid = nextObj + 1]
    /\ lock' = IF lock = ByCaller(c) THEN LockFree ELSE lock
    /\ cpc' = [cpc EXCEPT ![c] = "spawn"]
    /\ outcome' = [outcome EXCEPT ![call[c].task] = "admitted"]
    /\ UNCHANGED <<ret, thr, nextTask, ran>>

\* lines 60-64: thread.start(); return job
StartJobSpawn(c) ==
    /\ cpc[c] = "spawn"
    /\ thr' = [thr EXCEPT ![call[c].oid] =
                  [NoThread EXCEPT !.pc = "start", !.key = call[c].key,
                                   !.task = call[c].task]]
    /\ ret' = [ret EXCEPT ![c] =
                  [kind |-> "job", job_key |-> call[c].key, state |-> "running",
                   oid |-> call[c].oid,
                   message |-> <<LabelOf(call[c].key), "update running.">>,
                   active_job_key |-> ""]]
    /\ cpc' = [cpc EXCEPT ![c] = "idle"]
    /\ UNCHANGED <<JOBS, jobOrder, lock, call, nextObj, nextTask, ran, outcome, clock>>

\* the dict get_job_status returns: the idle status of a key without a job,
\* or a copy of the job's dict (no object is handed out)
StatusOf(k, job) ==
    IF job = NoJob
    THEN [kind |-> "status", job_key |-> k, state |-> "idle", oid |-> 0,
          message |-> <<>>, active_job_key |-> ""]
    ELSE [kind |-> "status", job_key |-> job.job_key, state |-> job.state, oid |-> 0,
          message |-> job.message, active_job_key |-> ""]

\* a request thread enters get_job_status(job_key) and passes line 98,
\* `with _JOB_LOCK`
GetJobStatusAcquire(c, k) ==
    /\ cpc[c] = "idle"
    /\ CanAcquire(ByCaller(c))
    /\ lock' = ByCaller(c)
    /\ call' = [call EXCEPT ![c] = [NoCall EXCEPT !.key = k]]
    /\ cpc' = [cpc EXCEPT ![c] = "status"]
    /\ ret' = [ret EXCEPT ![c] = NoRet]
    /\ UNCHANGED <<JOBS, jobOrder, thr, nextObj, nextTask, ran, outcome, clock>>

\* lines 99-108: the status is read and returned, the lock released
GetJobStatusReturn(c) ==
    /\ cpc[c] = "status"
    /\ ret' = [ret EXCEPT ![c] = StatusOf(call[c].key, JOBS[call[c].key])]
    /\ lock' = IF lock = ByCaller(c) THEN LockFree ELSE lock
    /\ cpc' = [cpc EXCEPT ![c] = "idle"]
    /\ UNCHANGED <<JOBS, jobOrder, call, thr, nextObj, nextTask, ran, outcome, clock>>

\* a runner that calls target() inside `with _JOB_LOCK`
RunJobInvokeLocked(t) ==
    /\ thr[t].pc = "start"
    /\ lock = LockFree
    /\ lock' = ByThread(t)
    /\ thr' = [thr EXCEPT ![t].pc = "target"]
    /\ ran' = [ran EXCEPT ![thr[t].task] = @ + 1]
    /\ UNCHANGED <<JOBS, jobOrder, cpc, call, ret, nextObj, nextTask, outcome, clock>>

\* _run_job line 71: the background thread invokes target()
RunJobInvoke(t) ==
    /\ thr[t].pc = "start"
    /\ thr' = [thr EXCEPT ![t].pc = "target"]
    /\ ran' = [ran EXCEPT ![thr[t].task] = @ + 1]
    /\ UNCHANGED <<JOBS, jobOrder, lock, cpc, call, ret, nextObj, nextTask, outcome, clock>>

\* line 71: target() returns a result
RunJobReturn(t, r) ==
    /\ thr[t].pc = "target"
    /\ thr' = [thr EXCEPT ![t].pc = "finish", ![t].result = r]
    /\ UNCHANGED <<JOBS, jobOrder, lock, cpc, call, ret, nextObj, nextTask, ran, outcome, clock>>

\* str(exc).strip() of the exception texts the model draws
Strip(s) == IF s = " boom " THEN "boom" ELSE s

\* a runner without the except clause: the exception ends the thread
RunJobRaisePropagates(t, e) ==
    /\ thr[t].pc = "target"
    /\ thr' = [thr EXCEPT ![t] = [NoThread EXCEPT !.pc = "exit", !.key = thr[t].key,
                                                  !.task = thr[t].task]]
    /\ UNCHANGED <<JOBS, jobOrder, lock, cpc, call, ret, nextObj, nextTask, ran, outcome, clock>>

\* lines 72-74: target() raises; error_message = str(exc).strip() or "Update failed."
RunJobRaise(t, e) ==
    /\ thr[t].pc = "target"
    /\ thr' = [thr EXCEPT ![t].pc = "finish", ![t].exc = <<"Exception", e>>,
                          ![t].error_message =
                              IF Strip(e) = "" THEN <<"Update failed.">> ELSE <<Strip(e)>>]
    /\ UNCHANGED <<JOBS, jobOrder, lock, cpc, call, ret, nextObj, nextTask, ran, outcome, clock>>

\* line 76: with _JOB_LOCK
RunJobAcquire(t) ==
    /\ thr[t].pc = "finish"
    /\ CanAcquire(ByThread(t))
    /\ lock' = ByThread(t)
    /\ thr' = [thr EXCEPT ![t].pc = "locked"]
    /\ UNCHANGED <<JOBS, jobOrder, cpc, call, ret, nextObj, nextTask, ran, outcome, clock>>

\* a runner that reports every finished task as done
FinishedAlwaysDone(job, t, now) ==
    [job EXCEPT !.finished_at = now, !.state = "done", !.result = thr[t].result,
                !.message = <<job.label, "completed.">>]

\* the fields _run_job writes into the job it finds under its key (lines 80-94)
Finished(job, t, now) ==
    IF thr[t].error_message # NoneVal
    THEN [job EXCEPT !.finished_at = now, !.state = "error",
                     !.message = thr[t].error_message,
                     !.error = thr[t].error_message]
    ELSE [job EXCEPT !.finished_at = now, !.state = "done",
                     !.result = thr[t].result,
                     !.message = IF thr[t].result \notin {NoneVal, IntVal(0)}
                                 THEN <<job.label, "updated:", thr[t].result, "points.">>
                                 ELSE <<job.label, "completed.">>]

\* a runner that invokes a failed task again instead of recording the error
RunJobRecordRetry(t) ==
    /\ thr[t].pc = "locked"
    /\ thr[t].error_message # NoneVal
    /\ lock' = IF lock = ByThread(t) THEN LockFree ELSE lock
    /\ thr' = [thr EXCEPT ![t].pc = "start", ![t].error_message = NoneVal]
    /\ UNCHANGED <<JOBS, jobOrder, cpc, call, ret, nextObj, nextTask, ran, outcome, clock>>

\* lines 77-94: record the outcome on the job stored under job_key
RunJobRecord(t) ==
    /\ thr[t].pc = "locked"
    /\ \E now \in now_iso :
          IF JOBS[thr[t].key] = NoJob
          THEN UNCHANGED <<JOBS, clock>>
          ELSE /\ clock' = now
               /\ JOBS' = [JOBS EXCEPT ![thr[t].key] = Finished(JOBS[thr[t].key], t, now)]
    /\ lock' = IF lock = ByThread(t) THEN LockFree ELSE lock
    /\ thr' = [thr EXCEPT ![t] = [NoThread EXCEPT !.pc = "exit", !.key = thr[t].key,
                                                  !.task = thr[t].task]]
    /\ UNCHANGED <<jobOrder, cpc, call, ret, nextObj, nextTask, ran, outcome>>

(***************************************************************************)
(* Job runner: properties                                                  *)
(***************************************************************************)
RunningKeys == {k \in Keys : JOBS[k].state = "running"}
\* background threads that were started and have not recorded their outcome
LiveThreads == {t \in Objs : thr[t].pc \in {"start", "target", "finish", "locked"}}
ExecutingThreads == {t \in Objs : thr[t].pc = "target"}
OtherKeyRunning(c) == \E k \in Keys : k # call[c].key /\ JOBS[k].state = "running"

\* C1: under any interleaving of start_job calls and task completions at most
\* one job of the table is running and at most one background thread is alive
\* (so at most one task executes); two overlapping calls for different keys
\* never both get a running job.
C1_SingleFlight ==
    /\ Cardinality(RunningKeys) <= 1
    /\ Cardinality(LiveThreads) <= 1
    /\ Cardinality(ExecutingThreads) <= 1
    /\ \A t \in LiveThreads : RunningKeys = {thr[t].key}

\* two calls for different keys overlapped while nothing ran: the first has
\* stored its job and not yet started its thread, the second was turned away
C1_Witness ==
    \E c, d \in Callers :
        /\ c # d
        /\ cpc[c] = "spawn"
        /\ ret[d].kind = "busy"
        /\ ret[d].job_key # call[c].key
        /\ nextObj = 1
        /\ ran = [t \in Tasks |-> 0]

\* C2: start_job(B) decided while another key A is running returns state busy,
\* starts no thread and leaves the whole job table as it was.
C2_BusyFrame ==
    [][\A c \in Callers :
          (cpc[c] = "decide" /\ cpc'[c] # "decide" /\ OtherKeyRunning(c))
          => /\ ret'[c].state = "busy"
             /\ ret'[c].job_key = call[c].key
             /\ ret'[c].active_job_key \in RunningKeys
             /\ cpc'[c] = "idle"
             /\ JOBS' = JOBS
             /\ jobOrder' = jobOrder
             /\ thr' = thr
             /\ nextObj' = nextObj
             /\ ran' = ran]_vars

\* a busy answer for a key whose earlier record is done or error, A still running
C2_Witness ==
    \E c \in Callers :
        /\ ret[c].kind = "busy"
        /\ cpc[c] = "idle"
        /\ JOBS[ret[c].job_key].state \in {"done", "error"}
        /\ JOBS[ret[c].active_job_key].state = "running"

\* C3: start_job(K) decided while K's own job is running returns that very job
\* object, replaces nothing, starts no thread, and the task it was passed is
\* never invoked.
C3_Idempotent ==
    /\ [][\A c \in Callers :
            (cpc[c] = "decide" /\ cpc'[c] # "decide"
                /\ JOBS[call[c].key].state = "running")
            => /\ ret'[c].kind = "job"
               /\ ret'[c].oid = JOBS[call[c].key].oid
               /\ ret'[c].state = "running"
               /\ cpc'[c] = "idle"
               /\ JOBS' = JOBS
               /\ thr' = thr
               /\ nextObj' = nextObj
               /\ ran' = ran]_vars
    /\ [](\A t \in Tasks : outcome[t] \in {"existing", "busy"} => ran[t] = 0)
    /\ [](\A t \in Objs : thr[t].pc # "none" => outcome[thr[t].task] = "admitted")

\* the same key was started twice more while its job ran; both calls got the
\* running object back and the job has since finished
C3_Witness ==
    /\ Cardinality({t \in Tasks : outcome[t] = "existing"}) >= 2
    /\ nextObj = 1
    /\ thr[1].pc = "exit"
    /\ \E c \in Callers : ret[c].kind = "job" /\ ret[c].oid = 1

\* C10: a job object only moves running -> done | error and then never changes;
\* a record is only replaced when it is done or error, by a start_job call for
\* its key decided while nothing is running, and the new record is running;
\* every task is invoked at most once, and exactly once when its thread is through.
C10_JobStep(k) ==
    LET old == JOBS[k]
        new == JOBS'[k]
    IN  /\ new # NoJob
        /\ (old # NoJob /\ new.oid = old.oid) =>
              /\ old.state = "running"
              /\ new.state \in {"done", "error"}
              /\ new.task = old.task /\ new.started_at = old.started_at
        /\ (old = NoJob \/ new.oid # old.oid) =>
              /\ old = NoJob \/ old.state \in {"done", "error"}
              /\ new.state = "running"
              /\ new.oid = nextObj + 1
              /\ RunningKeys = {}
              /\ \E c \in Callers :
                    /\ cpc[c] = "decide" /\ cpc'[c] = "spawn"
                    /\ call[c].key = k /\ new.task = call[c].task

C10_Lifecycle ==
    /\ [][\A k \in Keys : JOBS'[k] # JOBS[k] => C10_JobStep(k)]_vars
    /\ [](\A t \in Tasks : ran[t] <= 1)
    /\ [](\A t \in Objs : thr[t].pc \in {"target", "finish", "locked", "exit"}
                              => ran[thr[t].task] = 1)
    /\ [](\A k \in Keys : JOBS[k].state \in {"absent", "running", "done", "error"})

\* a key whose job failed was started again and is running a fresh object,
\* the failed task having run once
C10_Witness ==
    \E k \in Keys :
        /\ JOBS[k].state = "running"
        /\ JOBS[k].oid = 2
        /\ thr[1].pc = "exit" /\ thr[1].key = k
        /\ ran[thr[1].task] = 1
        /\ thr[2].pc = "target"

\* the step in which background thread t records its outcome and exits
Records(t) == thr[t].pc = "locked" /\ thr'[t].pc = "exit"

\* C11: when the task raised, the runner leaves the job in state 'error' with
\* message and error equal to the stripped text of the exception ('Update
\* failed.' when that is empty) and result still None; when the task
\* returned, it leaves the job 'done' with the returned value as result and
\* no error; either way finished_at is set, and the thread ends normally.
C11_Outcome ==
    [][\A t \in Objs : Records(t) =>
          LET job == JOBS'[thr[t].key]
              exc == thr[t].exc
              text == IF exc = <<"Exception", " boom ">> THEN <<"boom">>
                      ELSE <<"Update failed.">>
          IN  /\ job.finished_at \in 0..MaxClock
              /\ exc # NoneVal =>
                    /\ job.state = "error"
                    /\ job.message = text /\ job.error = text
                    /\ job.result = NoneVal
              /\ exc = NoneVal =>
                    /\ job.state = "done"
                    /\ job.result = thr[t].result
                    /\ job.error = NoneVal]_vars

\* a task raised an exception with an empty text, another returned 7: both
\* outcomes are on record and both threads have ended
C11_Witness ==
    /\ \E k \in Keys : JOBS[k].state = "error" /\ JOBS[k].error = <<"Update failed.">>
    /\ \E k \in Keys : JOBS[k].state = "done" /\ JOBS[k].result = IntVal(7)
    /\ \A t \in 1..2 : thr[t].pc = "exit"

\* the step with which whoever holds the job-table lock leaves its `with`
\* block
HolderLeaves ==
    \/ \E c \in Callers :
          /\ lock = ByCaller(c)
          /\ \/ StartJobFind(c) \/ StartJobBusy(c) \/ StartJobExisting(c)
             \/ StartJobCreate(c) \/ GetJobStatusReturn(c)
    \/ \E t \in Objs : lock = ByThread(t) /\ RunJobRecord(t)

\* C17: while a background thread runs its target it does not hold the
\* job-table lock; the lock is then free, so that an arriving get_job_status
\* takes it at once, or held by a request thread or a recording thread that
\* can take its next step without the task; and a get_job_status for the key
\* of a task that is running its target returns state 'running'.
C17_LockNotHeldInTask ==
    [][\A t \in Objs : thr[t].pc = "target" =>
          /\ lock # ByThread(t)
          /\ lock = LockFree =>
                \A c \in Pollers, k \in Keys :
                    cpc[c] = "idle" => ENABLED GetJobStatusAcquire(c, k)
          /\ lock # LockFree => ENABLED HolderLeaves
          /\ \A c \in Pollers :
                (cpc[c] = "status" /\ cpc'[c] = "idle" /\ call[c].key = thr[t].key
                    /\ thr'[t].pc = "target") =>
                      ret'[c].kind = "status" /\ ret'[c].state = "running"]_vars

\* a task is running its target while a status call for its key holds the lock
C17_Witness ==
    \E t \in Objs, c \in Pollers :
        /\ thr[t].pc = "target"
        /\ cpc[c] = "status" /\ lock = ByCaller(c)
        /\ call[c].key = thr[t].key

\* C18: under fair scheduling every job that is running, and whose task
\* returns or raises, reaches done or error; and a start_job call that finds
\* no job running is admitted.
C18_Liveness ==
    /\ \A k \in Keys :
          (JOBS[k] # NoJob /\ JOBS[k].state = "running")
              ~> (JOBS[k] # NoJob /\ JOBS[k].state \in {"done", "error"})
    /\ \A c \in Starters :
          (cpc[c] = "decide" /\ call[c].running_job = NoJob)
              ~> (cpc[c] = "spawn" /\ outcome[call[c].task] = "admitted")

\* a job has finished and a later call for the other key was admitted
C18_Witness ==
    \E k, l \in Keys :
        /\ k # l
        /\ JOBS[k] # NoJob /\ JOBS[k].state \in {"done", "error"}
        /\ JOBS[l] # NoJob /\ JOBS[l].state = "running"
        /\ JOBS[l].started_at >= JOBS[k].finished_at
        /\ outcome[JOBS[l].task] = "admitted"

(***************************************************************************)
(* services/model_registry.py: canonical_model_key                         *)
(***************************************************************************)
MaxParams == 2      \* entries of a hyperparameter dict

\* JSON values: an int, a float (in thousandths), a bool, a string, a list or
\* a dict; a dict is the sequence of its <<key, value>> items in insertion
\* order, a list the sequence of its values
IntV(n) == [t |-> "int", n |-> n, s |-> "", m |-> <<>>]
FloatV(n) == [t |-> "float", n |-> n, s |-> "", m |-> <<>>]
BoolV(b) == [t |-> "bool", n |-> IF b THEN 1 ELSE 0, s |-> "", m |-> <<>>]
StrV(x) == [t |-> "str", n |-> 0, s |-> x, m |-> <<>>]
ListV(values) == [t |-> "list", n |-> 0, s |-> "", m |-> values]
MapV(items) == [t |-> "map", n |-> 0, s |-> "", m |-> items]

\* every key the payload can hold, in the order Python sorts strings
KeyOrder == <<"batch_size", "cell_type", "hidden_dim", "hidden_fc_sizes", "horizon_days",
              "hyperparams", "input_chunk_length", "lr", "model_family", "n_epochs",
              "n_rnn_layers", "output_chunk_length", "random_state", "save_checkpoints",
              "scope", "training_length", "transform", "val_split", "weight_decay">>
KeyRank(k) == CHOOSE i \in 1..Len(KeyOrder) : KeyOrder[i] = k

HKeys == {"n_epochs", "batch_size", "hidden_dim"}
NKeys == {"weight_decay", "lr"}

RECURSIVE InsertSorted(_, _)
InsertSorted(item, items) ==
    IF items = <<>> THEN <<item>>
    ELSE IF KeyRank(item[1]) <= KeyRank(Head(items)[1]) THEN <<item>> \o items
    ELSE <<Head(items)>> \o InsertSorted(item, Tail(items))

\* sorted(value): the items of a dict by ascending key
RECURSIVE SortItems(_)
SortItems(items) ==
    IF items = <<>> THEN <<>>
    ELSE InsertSorted(Head(items), SortItems(Tail(items)))

\* _normalize_config: dicts rebuilt with sorted keys, recursively, lists
\* element by element
RECURSIVE normalize_config(_)
normalize_config(value) ==
    IF value.t = "map"
    THEN LET sorted == SortItems(value.m)
         IN  MapV([i \in 1..Len(sorted) |->
                      <<sorted[i][1], normalize_config(sorted[i][2])>>])
    ELSE IF value.t = "list"
    THEN ListV([i \in 1..Len(value.m) |-> normalize_config(value.m[i])])
    ELSE value

StrCode(x) ==
    CASE x = "global_shared" -> 1 [] x = "per_crypto" -> 2
      [] x = "RNNModel" -> 3 [] x = "BlockRNNModel" -> 4
      [] x = "LSTM" -> 5 [] x = "GRU" -> 6
      [] x = "log_return" -> 7 [] OTHER -> 0

RECURSIVE Flatten(_)
Flatten(seqs) == IF seqs = <<>> THEN <<>> ELSE Head(seqs) \o Flatten(Tail(seqs))

\* json.dumps(value, sort_keys=..., separators=(",", ":")) as a token string:
\* a dict writes its items in dict order, or in key order with sort_keys
RECURSIVE dumps(_, _)
dumps(value, sort_keys) ==
    CASE value.t = "int" -> <<300 + value.n>>
      [] value.t = "float" -> <<5, 300 + value.n>>
      [] value.t = "bool" -> <<6 + value.n>>
      [] value.t = "str" -> <<200 + StrCode(value.s)>>
      [] value.t = "list" ->
           <<3>> \o Flatten([i \in 1..Len(value.m) |-> dumps(value.m[i], sort_keys)])
               \o <<4>>
      [] OTHER ->
           LET items == IF sort_keys THEN SortItems(value.m) ELSE value.m
           IN  <<1>> \o Flatten([i \in 1..Len(items) |->
                          <<100 + KeyRank(items[i][1])>> \o dumps(items[i][2], sort_keys)])
                   \o <<2>>

DigestHexChars == 8     \* hexdigest()[:8]

RECURSIVE Pow2(_)
Pow2(n) == IF n = 0 THEN 1 ELSE 2 * Pow2(n - 1)

\* one half of the digest: a rolling hash of the encoded string with
\* multiplier mult, cut to half of the hex characters kept
RECURSIVE DigestFrom(_, _, _, _)
DigestFrom(encoded, i, mult, modulus) ==
    IF i > Len(encoded) THEN 7
    ELSE (mult * DigestFrom(encoded, i + 1, mult, modulus) + encoded[i]) % modulus

HalfDigest(encoded, mult) == DigestFrom(encoded, 1, mult, Pow2(2 * DigestHexChars))

\* a digest of the encoded string cut to its first 8 hex characters, as the
\* pair of its two 4-character halves
sha256_8(encoded) == Only({<<HalfDigest(e, 31), HalfDigest(e, 131)>> : e \in {encoded}})

\* _default_work_dir()
default_work_dir == IF environ = "" THEN "/var/lib/app/darts" ELSE environ

\* str.lower() of the cell types
Lower(x) == IF x = "LSTM" THEN "lstm" ELSE IF x = "GRU" THEN "gru" ELSE x
\* transform.replace("_", "")
DropUnderscores(x) == IF x = "log_return" THEN "logreturn" ELSE x

\* the f-string of lines 58-61
ModelName(scope, model_family, cell_type, horizon_days, transform, digest) ==
    <<"crypto",
      IF scope = "global_shared" THEN "global" ELSE "percrypto",
      IF model_family = "BlockRNNModel" THEN "blockrnn" ELSE "rnn",
      Lower(cell_type), horizon_days, DropUnderscores(transform), digest>>

\* os.path.join(work_dir, "artifacts", f"{model_name}.pt")
ArtifactPath(work_dir, model_name) == <<work_dir, "artifacts", model_name, ".pt">>

Payload(scope, model_family, cell_type, horizon_days, transform, hp) ==
    MapV(<< <<"scope", StrV(scope)>>, <<"model_family", StrV(model_family)>>,
            <<"cell_type", StrV(cell_type)>>, <<"horizon_days", IntV(horizon_days)>>,
            <<"transform", StrV(transform)>>, <<"hyperparams", hp>> >>)

\* the key computed from the dict as it was passed: nothing is sorted
canonical_model_key_unsorted(scope, model_family, cell_type, horizon_days, transform, hyperparams) ==
    LET encoded == dumps(Payload(scope, model_family, cell_type, horizon_days, transform,
                                 hyperparams), FALSE)
        model_name == ModelName(scope, model_family, cell_type, horizon_days, transform,
                                sha256_8(encoded))
    IN  <<model_name, default_work_dir, ArtifactPath(default_work_dir, model_name)>>

canonical_model_key(scope, model_family, cell_type, horizon_days, transform, hyperparams) ==
    LET encoded == dumps(Payload(scope, model_family, cell_type, horizon_days, transform,
                                 normalize_config(hyperparams)), TRUE)
    IN  Only({<<model_name, default_work_dir, ArtifactPath(default_work_dir, model_name)>> :
              model_name \in {ModelName(scope, model_family, cell_type, horizon_days,
                                        transform, sha256_8(encoded))}})

\* ---- inputs ---------------------------------------------------------------
\* sequences of length n over S without repeated first components
RECURSIVE ItemSeqs(_, _, _)
ItemSeqs(keys, values, n) ==
    IF n = 0 THEN {<<>>}
    ELSE UNION {{<<(<<k, v>>)>> \o rest : rest \in ItemSeqs(keys \ {k}, values, n - 1)} :
                   <<k, v>> \in keys \X values}

NestedDicts == ItemSeqs(NKeys, {IntV(1)}, Cardinality(NKeys))
HValues == {IntV(1), IntV(2)} \cup {MapV(d) : d \in NestedDicts}
HyperparamDicts == {MapV(d) : d \in UNION {ItemSeqs(HKeys, HValues, n) : n \in 0..MaxParams}}

Reverse(items) == [i \in 1..Len(items) |-> items[Len(items) + 1 - i]]
Perms(n) == {f \in [1..n -> 1..n] : \A i, j \in 1..n : i # j => f[i] # f[j]}

\* the same dict built in another insertion order: the items permuted by f,
\* nested dicts built backwards when rev
Rebuilt(hp, f, rev) ==
    MapV([i \in 1..Len(hp.m) |->
            LET item == hp.m[f[i]]
            IN  <<item[1], IF rev /\ item[2].t = "map"
                           THEN MapV(Reverse(item[2].m)) ELSE item[2]>>])

\* the last value of the first dict replaced: a different configuration
Altered(hp) ==
    IF hp.m = <<>> THEN MapV(<< <<"n_epochs", IntV(2)>> >>)
    ELSE MapV([hp.m EXCEPT ![Len(hp.m)] =
                  <<hp.m[Len(hp.m)][1],
                    IF hp.m[Len(hp.m)][2] = IntV(2) THEN IntV(1) ELSE IntV(2)>>])

KeyArg(scope, model_family, cell_type) ==
    [scope |-> scope, model_family |-> model_family, cell_type |-> cell_type,
     horizon_days |-> 3, transform |-> "log_return"]
KeyArgs == {KeyArg("global_shared", "RNNModel", "LSTM"),
            KeyArg("global_shared", "BlockRNNModel", "GRU"),
            KeyArg("per_crypto", "RNNModel", "GRU"),
            KeyArg("per_crypto", "BlockRNNModel", "LSTM")}

KeyOf(a, hp) ==
    canonical_model_key(a.scope, a.model_family, a.cell_type, a.horizon_days,
                        a.transform, hp)

\* no call of canonical_model_key is under way
KeyIdle ==
    /\ environ = ""
    /\ kpc = "idle"
    /\ kargs = KeyArg("global_shared", "RNNModel", "LSTM")
    /\ khp = <<MapV(<<>>), MapV(<<>>)>>
    /\ kout = <<>>

\* the pairs of dicts the two calls are given: the same items in two insertion
\* orders, or dicts that differ in one value
DictPairs ==
    UNION {{<<hp, Rebuilt(hp, f, rev)>> : f \in Perms(Len(hp.m)), rev \in BOOLEAN}
              \cup {<<hp, Altered(hp)>>} : hp \in HyperparamDicts}

KeyInit ==
    /\ environ \in {"", "/tmp/darts"}
    /\ kpc = "input"
    /\ kargs \in KeyArgs
    /\ khp \in DictPairs
    /\ kout = <<>>

\* two calls of canonical_model_key in the same environment
KeyCalls ==
    /\ kpc = "input"
    /\ kpc' = "called"
    /\ kout' = <<KeyOf(kargs, khp[1]), KeyOf(kargs, khp[2])>>
    /\ UNCHANGED <<environ, kargs, khp>>

\* the items of a dict as a set, nested dicts compared the same way
RECURSIVE ItemSet(_)
ItemSet(value) ==
    IF value.t = "map"
    THEN {<<value.m[i][1], ItemSet(value.m[i][2])>> : i \in 1..Len(value.m)}
    ELSE {<<"scalar", value>>}

\* C4: two hyperparameter dicts with the same items, nested dicts included, in
\* whatever insertion order, give the identical (model_name, work_dir,
\* artifact_path) for the same scope, family, cell type, horizon and
\* transform; the artifact path is <work_dir>/artifacts/<model_name>.pt.
C4_KeyDeterministic ==
    kpc = "called" =>
        /\ ItemSet(khp[1]) = ItemSet(khp[2]) => kout[1] = kout[2]
        /\ \A i \in 1..2 : kout[i][3] = <<kout[i][2], "artifacts", kout[i][1], ".pt">>

\* two dicts with the same items in different orders, one nested dict among them
C4_Witness ==
    /\ kpc = "called"
    /\ khp[1] # khp[2]
    /\ ItemSet(khp[1]) = ItemSet(khp[2])
    /\ Len(khp[1].m) = 2
    /\ khp[1].m[1][1] = khp[2].m[2][1]
    /\ \E i \in 1..2 : khp[1].m[i][2].t = "map" /\ Len(khp[1].m[i][2].m) = 2
    /\ kout[1] = kout[2]

(***************************************************************************)
(* services/rnn.py, services/global_training.py: sizing                    *)
(*                                                                         *)
(* Fractions are exact rationals <<numerator, denominator>>, denominator   *)
(* positive; int() of a non-negative product is the integer quotient.      *)
(***************************************************************************)
MaxSeriesLen == 16  \* longest return series
MaxChunk == 7       \* largest small chunk / training length requested

Max(a, b) == IF a >= b THEN a ELSE b
Min(a, b) == IF a <= b THEN a ELSE b

Frac(n, d) == <<n, d>>
FracLE(a, b) == a[1] * b[2] <= b[1] * a[2]
FracLT(a, b) == a[1] * b[2] < b[1] * a[2]
FracMin(a, b) == IF FracLE(a, b) THEN a ELSE b
FracMax(a, b) == IF FracLE(a, b) THEN b ELSE a
Zero == Frac(0, 1)
Half == Frac(1, 2)
\* 1 - ratio
OneMinus(a) == Frac(a[2] - a[1], a[2])
\* int(n * ratio) for n >= 0 and ratio >= 0
IntTimes(n, a) == (n * a[1]) \div a[2]

\* _resolve_chunk_lengths (rnn.py 171-182, global_training.py 111-122)
resolve_chunk_lengths(series_len, input_chunk_length, output_chunk_length) ==
    LET min_input == 5
        oc0 == Max(1, output_chunk_length)
        output_chunk == IF series_len - oc0 < min_input
                        THEN Max(1, series_len - min_input) ELSE oc0
        ic0 == Max(min_input, Min(input_chunk_length, series_len - output_chunk))
        input_chunk == IF ic0 + output_chunk > series_len
                       THEN Max(3, series_len - output_chunk) ELSE ic0
    IN  <<input_chunk, output_chunk>>

\* _resolve_training_length
resolve_training_length(series_len, input_chunk, training_length) ==
    Max(input_chunk, Min(training_length, series_len))

\* _min_required_length; is_rnn: model_kind == "rnn" / model_family == "RNNModel"
min_required_length(is_rnn, input_chunk_length, output_chunk_length, training_length) ==
    IF is_rnn
    THEN Max(input_chunk_length, training_length) + Max(1, output_chunk_length)
    ELSE input_chunk_length + Max(1, output_chunk_length)

\* a split that trusts the requested fraction whatever min_required is
resolve_val_split_unchecked(desired, series_len, min_required, fp_low) ==
    IF FracLE(desired, Zero) \/ series_len <= 0 THEN Zero
    ELSE FracMin(Half, FracMax(Zero, desired))

\* _resolve_val_split (rnn.py 130-150, global_training.py 152-172).  fp_low:
\* the float product series_len * (min_required / series_len) came out just
\* below min_required
resolve_val_split(desired, series_len, min_required, fp_low) ==
    IF FracLE(desired, Zero) \/ series_len <= 0 THEN Zero
    ELSE LET ratio0 == FracMin(Half, FracMax(Zero, desired))
         IN  IF min_required <= 0 THEN ratio0
             ELSE LET min_ratio == Frac(min_required, series_len)
                      max_ratio == Frac(series_len - min_required, series_len)
                  IN  IF FracLT(max_ratio, min_ratio) \/ FracLE(max_ratio, Zero) THEN Zero
                      ELSE LET raised == FracLT(ratio0, min_ratio)
                               ratio1 == IF raised THEN min_ratio ELSE ratio0
                               ratio == IF FracLT(max_ratio, ratio1) THEN max_ratio ELSE ratio1
                               val_len == IntTimes(series_len, ratio)
                                            - (IF raised /\ fp_low THEN 1 ELSE 0)
                               train_len == series_len - val_len
                           IN  IF val_len < min_required \/ train_len < min_required
                               THEN Zero ELSE ratio

\* len(train), len(val) after _split_series(series, val_split): split_before
\* cuts at int(len * (1 - ratio)), as the repository's test double does
split_series(series_len, val_split) ==
    IF FracLE(val_split, Zero) THEN <<series_len, 0>>
    ELSE LET ratio == FracMin(Half, FracMax(Zero, val_split))
         IN  IF FracLE(ratio, Zero) THEN <<series_len, 0>>
             ELSE LET idx == IntTimes(series_len, OneMinus(ratio))
                  IN  <<idx, series_len - idx>>

\* _train_rnn, lines 205-266: the sizing of the per-asset model
train_rnn_sizing(a) ==
    LET is_rnn == a.family = "rnn"
        first == resolve_chunk_lengths(a.series_len, a.input_chunk_length,
                                       IF is_rnn THEN 1 ELSE Max(1, a.output_chunk_length))
        tl0 == resolve_training_length(a.series_len, first[1], a.training_length)
        base_training_length ==
            IF ~is_rnn THEN a.training_length
            ELSE IF tl0 <= first[1]
                 THEN Min(a.series_len, first[1] + Max(1, a.horizon_days))
                 ELSE tl0
        min_required == min_required_length(is_rnn, first[1], first[2], base_training_length)
        effective_val_split == resolve_val_split(a.val_split, a.series_len, min_required,
                                                 a.fp_low)
        parts == split_series(a.series_len, effective_val_split)
        too_short == parts[1] < 5
        train_len == IF too_short THEN a.series_len ELSE parts[1]
        val_len == IF too_short THEN 0 ELSE parts[2]
        second == resolve_chunk_lengths(train_len, first[1], first[2])
        tl1 == IF is_rnn
               THEN resolve_training_length(train_len, second[1], base_training_length)
               ELSE base_training_length
        min_required2 == min_required_length(is_rnn, second[1], second[2], tl1)
        dropped == val_len > 0 /\ val_len < min_required2
    IN  [input_chunk |-> first[1], output_chunk |-> first[2],
         training_length |-> base_training_length,
         min_required |-> min_required, val_split |-> effective_val_split,
         final_input_chunk |-> IF dropped THEN first[1] ELSE second[1],
         final_output_chunk |-> IF dropped THEN first[2] ELSE second[2],
         final_training_length |-> IF dropped THEN base_training_length ELSE tl1,
         fit_len |-> IF dropped THEN a.series_len ELSE train_len,
         val_len |-> IF dropped THEN 0 ELSE val_len]

\* train_global_model._resolve_sizing(min_len), lines 248-299
resolve_sizing(a) ==
    LET is_rnn == a.family = "rnn"
        output_for_chunks == IF is_rnn THEN 1 ELSE a.output_chunk_length
        first == resolve_chunk_lengths(a.series_len, a.input_chunk_length, output_for_chunks)
        tl0 == IF is_rnn
               THEN resolve_training_length(a.series_len, first[1], a.training_length)
               ELSE a.training_length
        min_required0 == min_required_length(is_rnn, first[1], first[2], tl0)
        val_split == resolve_val_split(a.val_split, a.series_len, min_required0, a.fp_low)
        min_train_len == IF FracLT(Zero, val_split)
                         THEN IntTimes(a.series_len, OneMinus(val_split))
                         ELSE a.series_len
        again == min_train_len < a.series_len
        second == IF again
                  THEN resolve_chunk_lengths(min_train_len, first[1], output_for_chunks)
                  ELSE first
        tl1 == IF again /\ is_rnn
               THEN resolve_training_length(min_train_len, second[1], tl0)
               ELSE tl0
    IN  [input_chunk |-> second[1], output_chunk |-> second[2],
         training_length |-> tl1,
         min_required |-> min_required_length(is_rnn, second[1], second[2], tl1),
         val_split |-> val_split,
         final_input_chunk |-> second[1], final_output_chunk |-> second[2],
         final_training_length |-> tl1,
         fit_len |-> min_train_len, val_len |-> a.series_len - min_train_len]

DefaultInputChunk == 180    \* the default input_chunk_length
DefaultTrainingLength == 210

ValSplits == {Frac(0, 1), Frac(1, 5), Frac(3, 10), Frac(1, 2), Frac(7, 10)}

SizingInputs ==
    [series_len : 6..MaxSeriesLen,
     input_chunk_length : {1, 5, MaxChunk - 1, MaxChunk, DefaultInputChunk},
     output_chunk_length : {1, 3, MaxChunk},
     training_length : {1, MaxChunk - 1, MaxChunk, MaxChunk + 1, DefaultTrainingLength},
     horizon_days : {1, 3},
     family : {"rnn", "block"},
     val_split : ValSplits,
     fp_low : BOOLEAN]

NoSizing == [input_chunk |-> 0, output_chunk |-> 0, training_length |-> 0,
             min_required |-> 0, val_split |-> Zero,
             final_input_chunk |-> 0, final_output_chunk |-> 0,
             final_training_length |-> 0, fit_len |-> 0, val_len |-> 0]

SizingIdle ==
    /\ szpc = "idle"
    /\ szIn = [series_len |-> 6]
    /\ szOut = NoSizing

SizingInit ==
    /\ szpc = "input"
    /\ szIn \in SizingInputs
    /\ szOut = NoSizing

\* the per-asset route trains one asset: _train_rnn
TrainRnnSizing ==
    /\ szpc = "input"
    /\ szpc' = "per_asset"
    /\ szOut' = train_rnn_sizing(szIn)
    /\ UNCHANGED szIn

\* the global route: _resolve_sizing on the shortest series
ResolveSizing ==
    /\ szpc = "input"
    /\ szpc' = "global"
    /\ szOut' = resolve_sizing(szIn)
    /\ UNCHANGED szIn

ValSplitInputs ==
    [desired : ValSplits \cup {Frac(0 - 1, 10), Frac(1, 100)},
     series_len : (0 - 1)..MaxSeriesLen,
     min_required : 1..(MaxSeriesLen + 1),
     fp_low : BOOLEAN]

ValSplitInit ==
    /\ szpc = "input"
    /\ szIn \in ValSplitInputs
    /\ szOut = [val_split |-> Zero]

\* _resolve_val_split(desired, series_len, min_required)
ResolveValSplit ==
    /\ szpc = "input"
    /\ szpc' = "split"
    /\ szOut' = [val_split |-> resolve_val_split(szIn.desired, szIn.series_len,
                                                 szIn.min_required, szIn.fp_low)]
    /\ UNCHANGED szIn

\* C5: for every series_length >= 6 and requested chunk sizes and training
\* length >= 1, in both families, the resolved sizes give
\* min_required <= series_length.
C5_Feasible ==
    szpc \in {"per_asset", "global"} => szOut.min_required <= szIn.series_len

\* C20: for the single-step family, in the per-asset trainer and in the global
\* trainer, the training_length passed to the model is greater than the final
\* input chunk and at most the length of the series that is fitted, for every
\* series length >= 6 and requested input chunk and training length >= 1.
C20_TrainingLength ==
    (szpc \in {"per_asset", "global"} /\ szIn.family = "rnn") =>
        /\ szOut.final_training_length > szOut.final_input_chunk
        /\ szOut.final_training_length <= szOut.fit_len

\* the same for the per-asset trainer alone
C20_PerAsset ==
    (szpc = "per_asset" /\ szIn.family = "rnn") =>
        /\ szOut.final_training_length > szOut.final_input_chunk
        /\ szOut.final_training_length <= szOut.fit_len

\* the global trainer keeps the clamp's bounds, with equality possible
C20_GlobalClamp ==
    (szpc = "global" /\ szIn.family = "rnn") =>
        /\ szOut.final_training_length >= szOut.final_input_chunk
        /\ szOut.final_training_length <= szOut.fit_len

\* C6: for min_required > 0 the fraction f that _resolve_val_split returns is 0
\* or leaves series_length * (1 - f) >= min_required and
\* series_length * f >= min_required; it is a fraction in [0, 1/2] in every case.
C6_SplitSafe ==
    szpc = "split" =>
        LET f == szOut.val_split
            n == szIn.series_len
        IN  /\ f[2] > 0 /\ FracLE(Zero, f) /\ FracLE(f, Half)
            /\ \/ f = Zero
               \/ /\ n * (f[2] - f[1]) >= szIn.min_required * f[2]
                  /\ n * f[1] >= szIn.min_required * f[2]

\* a positive split that had to be raised to min_required / series_length
C6_Witness ==
    /\ szpc = "split"
    /\ FracLT(Zero, szOut.val_split)
    /\ FracLT(szIn.desired, szOut.val_split)
    /\ szIn.min_required >= 6

(***************************************************************************)
(* services/global_training.py, services/global_inference.py: training a   *)
(* shared model and forecasting from it                                    *)
(*                                                                         *)
(* Dates are day numbers.  Prices are integers in thousandths; log prices, *)
(* log returns and predictions are integers in tenths; exp is the rounded  *)
(* table ExpTable and log its inverse on the prices of the table.          *)
(***************************************************************************)
MaxDays == 14       \* last day of the longest price history
MaxOps == 3         \* train and predict calls in one behaviour

Assets == {1, 2}

\* round(1000 * e^(k/10)) for k = -12 .. 12
ExpTable == <<301, 333, 368, 407, 449, 497, 549, 607, 670, 741, 819, 905, 1000,
              1105, 1221, 1350, 1492, 1649, 1822, 2014, 2226, 2460, 2718, 3004, 3320>>
ExpZero == (Len(ExpTable) + 1) \div 2
math_exp(k) == ExpTable[k + ExpZero]
np_log(p) == CHOOSE k \in (1 - ExpZero)..(ExpZero - 1) : math_exp(k) = p

\* prev_price * math.exp(k)
TimesExp(price, k) == (price * math_exp(k)) \div math_exp(0)

RECURSIVE SumSeq(_)
SumSeq(s) == IF s = <<>> THEN 0 ELSE Head(s) + SumSeq(Tail(s))

isqrt(n) == CHOOSE r \in 0..n : r * r <= n /\ (r + 1) * (r + 1) > n

\* 1.96 * np.std(residuals) in tenths, 0.0 without residuals: zero exactly
\* when the residuals are all equal, never rounded down to zero otherwise
ci_width_of(residuals) ==
    LET n == Len(residuals)
        total == SumSeq(residuals)
        squares == SumSeq([i \in 1..n |-> residuals[i] * residuals[i]])
        spread == n * squares - total * total
    IN  IF n = 0 \/ spread = 0 THEN 0
        ELSE Max(1, (196 * isqrt(spread)) \div (100 * n))

\* ---- the prices table -------------------------------------------------------
HistoryKinds == {"none", "two", "six", "sparse", "long"}
HistoryDates(kind) ==
    CASE kind = "none" -> {}
      [] kind = "two" -> {1, 2}
      [] kind = "six" -> 1..6
      [] kind = "sparse" -> {1, 2, 3, 9}
      [] OTHER -> 1..MaxDays

Patterns == {"flat", "wavy"}
LogPrice(pattern, d) == IF pattern = "flat" THEN 0 ELSE d % 2

PriceRows(kind, pattern) ==
    {[date |-> d, price |-> math_exp(LogPrice(pattern, d))] : d \in HistoryDates(kind)}

RECURSIVE SortRows(_)
SortRows(S) ==
    IF S = {} THEN <<>>
    ELSE Only({<<r>> \o SortRows(S \ {r}) :
               r \in {CHOOSE q \in S : \A o \in S : q.date <= o.date}})

\* date.today(): the day of the latest price
Today == MaxDays

\* fetch_price_series(session, crypto_id, days): the rows of the asset by
\* date, those of the last `days` days when days > 0
fetch_price_series(crypto_id, days) ==
    SortRows({r \in prices[crypto_id] : days > 0 => r.date >= Today - days})

NoFrame == [first |-> 1, last |-> 0, price |-> <<>>]
IsNone(x) == x.last < x.first

\* _build_price_frame: one row per calendar day from the first to the last
\* date, gaps filled with the last price before them
build_price_frame(rows) ==
    Only({IF r = <<>> THEN NoFrame
          ELSE [first |-> r[1].date, last |-> r[Len(r)].date,
                price |-> [d \in r[1].date..r[Len(r)].date |->
                    LET i == CHOOSE i \in 1..Len(r) :
                                /\ r[i].date <= d
                                /\ \A j \in 1..Len(r) : r[j].date <= d => r[j].date <= r[i].date
                    IN  r[i].price]] :
          r \in {rows}})

FrameLen(price_df) == price_df.last - price_df.first + 1

\* the log_return column: log price minus the log price of the day before
log_return(price_df, d) == np_log(price_df.price[d]) - np_log(price_df.price[d - 1])

NoSeries == [first |-> 1, last |-> 0]

\* _build_return_series: the days whose log_return is not NaN, all but the first
build_return_series(price_df) ==
    IF price_df.last <= price_df.first THEN NoSeries
    ELSE [first |-> price_df.first + 1, last |-> price_df.last]

SeriesLen(series) == series.last - series.first + 1

\* ---- train_global_model ---------------------------------------------------
NotEnoughData == "Not enough data to train a global model."
NoCryptoIds == "No crypto ids provided for training."
FitFailed == "fit raised"

price_frame_of(crypto_id, days) == build_price_frame(fetch_price_series(crypto_id, days))
return_series_of(crypto_id, days) == build_return_series(price_frame_of(crypto_id, days))

\* an asset kept whatever the number of its return points
has_series_payload_frame_only(crypto_id, days) ==
    LET price_df == price_frame_of(crypto_id, days)
    IN  ~(IsNone(price_df) \/ FrameLen(price_df) < 6)

\* lines 207-214: the asset gets a series payload
has_series_payload(crypto_id, days) ==
    LET price_df == price_frame_of(crypto_id, days)
    IN  IF IsNone(price_df) \/ FrameLen(price_df) < 6 THEN FALSE
        ELSE LET series == build_return_series(price_df)
             IN  ~(IsNone(series) \/ SeriesLen(series) < 6)

\* min(len(payload["series"]) for payload in filtered_payloads)
min_series_len(payloads, days) ==
    LET lens == {SeriesLen(return_series_of(payloads[i], days)) : i \in 1..Len(payloads)}
    IN  CHOOSE n \in lens : \A m \in lens : n <= m

\* _resolve_sizing(min_len) for the request rq
sizing_of(rq, min_len) ==
    resolve_sizing([family |-> IF rq.model_family = "RNNModel" THEN "rnn" ELSE "block",
                    series_len |-> min_len,
                    input_chunk_length |-> rq.hyperparams.input_chunk_length,
                    output_chunk_length |-> rq.hyperparams.output_chunk_length,
                    training_length |-> rq.hyperparams.training_length,
                    horizon_days |-> rq.horizon_days,
                    val_split |-> rq.hyperparams.val_split,
                    fp_low |-> rq.fp_low])

train_len_of(crypto_id, days, val_split) ==
    split_series(SeriesLen(return_series_of(crypto_id, days)), val_split)[1]
val_len_of(crypto_id, days, val_split) ==
    split_series(SeriesLen(return_series_of(crypto_id, days)), val_split)[2]

\* lines 301-324: payloads whose training part is shorter than 5 are dropped
\* and the sizing is resolved again, until none is dropped or none is left
RECURSIVE kept_payloads(_, _)
kept_payloads(filtered_payloads, rq) ==
    LET sizing == sizing_of(rq, min_series_len(filtered_payloads, rq.training_days))
        kept == SelectSeq(filtered_payloads,
                          LAMBDA c : ~(train_len_of(c, rq.training_days,
                                                    sizing.val_split) < 5))
    IN  IF kept = <<>> THEN <<>>
        ELSE IF Len(kept) = Len(filtered_payloads) THEN kept
        ELSE kept_payloads(kept, rq)

MinOf(S) == CHOOSE n \in S : \A m \in S : n <= m
MaxOf(S) == CHOOSE n \in S : \A m \in S : n >= m

\* a float as JSON keeps three decimals here
FloatOf(a) == FloatV((1000 * a[1]) \div a[2])

\* lines 373-385
effective_hyperparams(sizing, val_split) ==
    MapV(<< <<"input_chunk_length", IntV(sizing.input_chunk)>>,
            <<"output_chunk_length", IntV(sizing.output_chunk)>>,
            <<"training_length", IntV(sizing.training_length)>>,
            <<"n_rnn_layers", IntV(2)>>,
            <<"hidden_dim", IntV(64)>>,
            <<"hidden_fc_sizes", ListV(<<IntV(64), IntV(32)>>)>>,
            <<"n_epochs", IntV(200)>>,
            <<"batch_size", IntV(64)>>,
            <<"random_state", IntV(42)>>,
            <<"val_split", FloatOf(val_split)>>,
            <<"save_checkpoints", BoolV(TRUE)>> >>)

\* the value recorded under a hyperparameter name
hyperparam(run, name) ==
    LET items == run.hyperparams_json.m
    IN  items[CHOOSE i \in 1..Len(items) : items[i][1] = name][2].n

\* what was a run before delete_global_model_run removed its row
DeletedRun == [scope |-> "deleted"]

TrainError(message) == [status |-> "error", error |-> message]

\* a trainer that records the requested validation share whatever the fit did
recorded_val_split_requested(sizing, actual_use_val) == sizing.val_split

\* lines 543-544: the validation share written into the recorded hyperparameters
recorded_val_split(sizing, actual_use_val) ==
    IF actual_use_val THEN sizing.val_split ELSE Zero

\* ---- the files of a run ---------------------------------------------------
\* f"{artifact_path}.ckpt"
Sidecar(path) == path \o <<".ckpt">>
\* a path is the work directory, the directory under it ("." for the work
\* directory itself), the model name and the parts below
\* os.path.join(work_dir, model_name, "_model.pth.tar")
BasePath(run) == <<run.work_dir, ".", run.model_name, "_model.pth.tar">>
\* the two directories searched for checkpoints
CheckpointDirs(run) ==
    {<<run.work_dir, ".", run.model_name, "checkpoints">>,
     <<run.work_dir, "darts_logs", run.model_name, "checkpoints">>}

\* os.path.isfile and os.listdir (a missing directory lists nothing)
isfile(path) == \E f \in files : f.path = path
listdir(dir) ==
    {SubSeq(f.path, Len(dir) + 1, Len(dir) + 2) :
        f \in {g \in files : /\ Len(g.path) = Len(dir) + 2
                              /\ SubSeq(g.path, 1, Len(dir)) = dir}}
\* name.startswith("best-"): a file name is two parts, its prefix and the rest
StartsWithBest(name) == name[1] = "best-"

\* what a file holds when no model can be read from it
Corrupt == [corrupt |-> TRUE]
IsCorrupt(content) == "corrupt" \in DOMAIN content
ContentOf(path) == (CHOOSE f \in files : f.path = path).model

\* a model that starts from no saved weights
NoWeights == "none"
WeightsFailed == "load_weights raised"

\* a warm start that needs its weight file
warm_start_weights_required(rq) ==
    IF rq.warm_start_run = 0 \/ rq.warm_start_mode # "weights"
    THEN [raised |-> FALSE, weights |-> NoWeights]
    ELSE LET artifact_path == runs[rq.warm_start_run].artifact_path_pt
         IN  IF artifact_path = <<>> \/ ~isfile(Sidecar(artifact_path))
             THEN [raised |-> TRUE, weights |-> NoWeights]
             ELSE IF IsCorrupt(ContentOf(Sidecar(artifact_path)))
             THEN [raised |-> TRUE, weights |-> NoWeights]
             ELSE [raised |-> FALSE,
                   weights |-> ContentOf(Sidecar(artifact_path)).learned]

\* lines 466-480: the weights the new model starts from.  load_weights reads
\* the checkpoint saved next to the artifact; when that file is not there it
\* raises FileNotFoundError or ValueError, which is caught and logged; a file
\* that cannot be read raises something else
warm_start_weights(rq) ==
    IF rq.warm_start_run = 0 \/ rq.warm_start_mode # "weights"
    THEN [raised |-> FALSE, weights |-> NoWeights]
    ELSE LET artifact_path == runs[rq.warm_start_run].artifact_path_pt
         IN  IF artifact_path = <<>> \/ ~isfile(Sidecar(artifact_path))
             THEN [raised |-> FALSE, weights |-> NoWeights]
             ELSE IF IsCorrupt(ContentOf(Sidecar(artifact_path)))
             THEN [raised |-> TRUE, weights |-> NoWeights]
             ELSE [raised |-> FALSE,
                   weights |-> ContentOf(Sidecar(artifact_path)).learned]

\* a feasibility check that wants more than min_required validation points
val_min_required_exceeded(rq, sizing) == sizing.min_required + 1

\* line 491: the min_required the validation series are measured against is
\* the one _resolve_sizing returned last, from the re-resolved sizes
val_min_required(rq, sizing) == sizing.min_required

\* lines 326-579 for the payloads kept, the sizing resolved for them and the
\* registry key of the effective hyperparameters: the fit, the run recorded
\* and the model saved.  fit_val and fit_plain are what model.fit does with
\* and without a validation set, learned is what the fitted model predicts.
fit_and_record(rq, payloads, sizing, key) ==
    LET days == rq.training_days
        n == Len(payloads)
        starts == {return_series_of(payloads[i], days).first : i \in 1..n}
        ends == {return_series_of(payloads[i], days).first
                    + train_len_of(payloads[i], days, sizing.val_split) - 1 : i \in 1..n}
        cutoffs == {price_frame_of(payloads[i], days).last : i \in 1..n}
        updating == rq.update_run # 0
        use_val == /\ \A i \in 1..n : val_len_of(payloads[i], days, sizing.val_split) > 0
                   /\ ~\E i \in 1..n :
                         val_len_of(payloads[i], days, sizing.val_split)
                             < val_min_required(rq, sizing)
        retried == use_val /\ rq.fit_val = "reject"
        actual_use_val == use_val /\ ~retried
        raised == IF use_val /\ ~retried THEN rq.fit_val = "error"
                  ELSE rq.fit_plain = "error"
        warm == warm_start_weights(rq)
    IN  IF warm.raised THEN TrainError(WeightsFailed)
        ELSE IF raised THEN TrainError(FitFailed)
        ELSE [status |-> "ok", error |-> "",
              use_val |-> use_val, actual_use_val |-> actual_use_val,
              fit_series |-> payloads,
              model |-> [model_family |-> rq.model_family,
                         input_chunk_length |-> sizing.input_chunk,
                         output_chunk_length |-> sizing.output_chunk,
                         training_length |-> sizing.training_length,
                         val_series |-> actual_use_val,
                         weights |-> warm.weights,
                         learned |-> rq.learned],
              run |-> [scope |-> "global_shared",
                       model_family |-> rq.model_family,
                       cell_type |-> rq.cell_type,
                       horizon_days |-> rq.horizon_days,
                       transform |-> "log_return",
                       hyperparams_json |->
                           effective_hyperparams(
                               sizing, recorded_val_split(sizing, actual_use_val)),
                       training_crypto_ids |-> payloads,
                       train_start_date |-> MinOf(starts),
                       train_end_date |-> MaxOf(ends),
                       cutoff_date |-> MaxOf(cutoffs),
                       artifact_path_pt |->
                           IF updating /\ runs[rq.update_run].artifact_path_pt # <<>>
                           THEN runs[rq.update_run].artifact_path_pt
                           ELSE key[3],
                       work_dir |-> IF updating /\ runs[rq.update_run].work_dir # ""
                                    THEN runs[rq.update_run].work_dir
                                    ELSE key[2],
                       model_name |-> IF updating /\ runs[rq.update_run].model_name # <<>>
                                      THEN runs[rq.update_run].model_name
                                      ELSE key[1]]]

\* train_global_model up to the point where it writes: what it raises, or the
\* run it records and the model it saves
train_global_model(rq) ==
    IF rq.crypto_ids = <<>> THEN TrainError(NoCryptoIds)
    ELSE Only({
        IF series_payloads = <<>> THEN TrainError(NotEnoughData)
        ELSE Only({
            IF payloads = <<>> THEN TrainError(NotEnoughData)
            ELSE Only({
                Only({fit_and_record(rq, payloads, sizing, key) :
                      key \in {canonical_model_key(
                                   "global_shared", rq.model_family, rq.cell_type,
                                   rq.horizon_days, "log_return",
                                   effective_hyperparams(sizing, sizing.val_split))}}) :
                sizing \in {sizing_of(rq, min_series_len(payloads, rq.training_days))}}) :
            payloads \in {kept_payloads(series_payloads, rq)}}) :
        series_payloads \in {SelectSeq(rq.crypto_ids,
                                       LAMBDA c : has_series_payload(c, rq.training_days))}})

\* model.save(artifact_path_pt): the .pt file and its .ckpt sidecar
SaveModel(path, model) ==
    {f \in files : f.path \notin {path, Sidecar(path)}}
        \cup {[path |-> path, model |-> model], [path |-> Sidecar(path), model |-> model]}

\* a trainer that adds a row whether or not update_run is given
written_runs_appended(rq, run) == Append(runs, run)

\* lines 547-579: the row of update_run with its fields replaced (session.commit
\* on the same object), or one row added by create_model_run
written_runs(rq, run) ==
    IF rq.update_run # 0 THEN [runs EXCEPT ![rq.update_run] = run]
    ELSE Append(runs, run)

\* a call of train_global_model with one of the given requests
TrainGlobalModel(requests) ==
    /\ nOps < MaxOps
    /\ nOps' = nOps + 1
    /\ \E rq \in requests :
          /\ rq.update_run = 0 \/ rq.update_run \in 1..Len(runs)
          /\ rq.warm_start_run = 0 \/ rq.warm_start_run \in 1..Len(runs)
          /\ \E out \in {train_global_model(rq)} :
                 IF out.status = "error"
                 THEN /\ opResult' = [op |-> "train", args |-> rq, status |-> "error",
                                      error |-> out.error, run_id |-> 0]
                      /\ UNCHANGED <<runs, files>>
                 ELSE /\ files' = SaveModel(out.run.artifact_path_pt, out.model)
                      /\ runs' = written_runs(rq, out.run)
                      /\ opResult' = [op |-> "train", args |-> rq, status |-> "ok",
                                      error |-> "",
                                      run_id |-> IF rq.update_run # 0 THEN rq.update_run
                                                 ELSE Len(runs) + 1,
                                      fit_series |-> out.fit_series,
                                      use_val |-> out.use_val,
                                      actual_use_val |-> out.actual_use_val]
    /\ UNCHANGED <<prices, lstm_forecasts, gru_forecasts>>

\* ---- predict_with_global_model --------------------------------------------
RunNotFound == "Model run not found."
NotInTrainingSet == "Crypto not part of the training set."
ArtifactMissing == "Model artifact path missing."
LibraryError == "darts raised"
IntegrityError == "unique constraint"

\* model_cls.load_from_checkpoint(model_name, work_dir, best=True): the model
\* of the best checkpoint, from the base file and the checkpoint file
load_from_checkpoint(run) ==
    LET best == {dir \o name : dir \in CheckpointDirs(run),
                                   name \in {n \in UNION {listdir(d) : d \in CheckpointDirs(run)} :
                                                StartsWithBest(n)}}
        found == {path \in best : isfile(path)}
    IN  IF ~isfile(BasePath(run)) \/ found = {} THEN [raised |-> TRUE, model |-> Corrupt]
        ELSE LET path == CHOOSE q \in found :
                            \A o \in found : Len(q) <= Len(o)
             IN  IF IsCorrupt(ContentOf(BasePath(run))) \/ IsCorrupt(ContentOf(path))
                 THEN [raised |-> TRUE, model |-> Corrupt]
                 ELSE [raised |-> FALSE, model |-> ContentOf(path)]

LoadError(message) == [status |-> "error", error |-> message, source |-> "none"]

\* a loader that takes the saved artifact whenever it is there
load_global_model_artifact_first(run, prefer) ==
    IF isfile(run.artifact_path_pt) /\ ~IsCorrupt(ContentOf(run.artifact_path_pt))
    THEN [status |-> "ok", error |-> "", source |-> "artifact",
          model |-> ContentOf(run.artifact_path_pt)]
    ELSE LoadError(ArtifactMissing)

\* load_global_model (model_registry.py 213-262)
load_global_model(run, prefer) ==
    LET artifact_path == run.artifact_path_pt
        has_artifact == /\ artifact_path # <<>>
                        /\ isfile(artifact_path)
                        /\ isfile(Sidecar(artifact_path))
        has_best_checkpoint ==
            /\ isfile(BasePath(run))
            /\ \E dir \in CheckpointDirs(run) : \E name \in listdir(dir) : StartsWithBest(name)
        preferred == IF prefer = "best_checkpoint" /\ run.work_dir # "" /\ run.model_name # <<>>
                        /\ ~has_best_checkpoint
                     THEN "artifact" ELSE prefer
    IN  IF preferred = "best_checkpoint" /\ ~load_from_checkpoint(run).raised
        THEN [status |-> "ok", error |-> "", source |-> "best_checkpoint",
              model |-> load_from_checkpoint(run).model]
        ELSE IF ~has_artifact THEN LoadError(ArtifactMissing)
        ELSE IF IsCorrupt(ContentOf(artifact_path)) THEN LoadError(LibraryError)
        ELSE [status |-> "ok", error |-> "", source |-> "artifact",
              model |-> ContentOf(artifact_path)]

\* the log return the fitted model predicts for day d
Prediction(model, d) == IF model.learned = "flat" THEN 0 ELSE 1

\* the points of a forecast for the days from..to
PointsOf(model, from, to) ==
    [i \in 1..(to - from + 1) |-> [date |-> from + i - 1,
                                   value |-> Prediction(model, from + i - 1)]]

ForecastRow(output_date, prev_price, prediction, ci_width) ==
    [date |-> output_date,
     yhat |-> TimesExp(prev_price, prediction),
     yhat_lower |-> TimesExp(prev_price, prediction - ci_width),
     yhat_upper |-> TimesExp(prev_price, prediction + ci_width)]

\* lines 191-212: one row per historical point, dated the day before, priced
\* from the observed price of that day; a date already written is skipped
RECURSIVE historical_rows(_, _, _, _)
historical_rows(points, seen_dates, price_df, ci_width) ==
    IF points = <<>> THEN <<>>
    ELSE LET point == Head(points)
             output_date == point.date - 1
             skip == \/ output_date \in seen_dates
                     \/ output_date \notin price_df.first..price_df.last
         IN  IF skip THEN historical_rows(Tail(points), seen_dates, price_df, ci_width)
             ELSE <<ForecastRow(output_date, price_df.price[output_date],
                                point.value, ci_width)>>
                  \o historical_rows(Tail(points), seen_dates \cup {output_date},
                                     price_df, ci_width)

\* every future price computed from the last observed price
RECURSIVE future_rows_unchained(_, _, _)
future_rows_unchained(points, prev_price, ci_width) ==
    IF points = <<>> THEN <<>>
    ELSE <<ForecastRow(Head(points).date - 1, prev_price, Head(points).value, ci_width)>>
         \o future_rows_unchained(Tail(points), prev_price, ci_width)

\* lines 214-238: the future rows, each priced from the row before it
RECURSIVE future_rows(_, _, _)
future_rows(points, prev_price, ci_width) ==
    IF points = <<>> THEN <<>>
    ELSE LET row == ForecastRow(Head(points).date - 1, prev_price,
                                Head(points).value, ci_width)
         IN  <<row>> \o future_rows(Tail(points), row.yhat, ci_width)

\* lines 189-238: the rows built from the points the library returned, the
\* historical ones first
forecast_rows_of(historical_points, future_points, price_df, ci_width) ==
    historical_rows(historical_points, {}, price_df, ci_width)
        \o future_rows(future_points, price_df.price[price_df.last], ci_width)

NoForecast == [raised |-> FALSE, rows |-> <<>>, historical_points |-> <<>>,
               future_points |-> <<>>, residuals |-> <<>>, ci_width |-> 0]

\* _compute_forecast.  lenient: the library answers a request it cannot
\* serve (no day left to back-test, a horizon that is not positive) with no
\* points; otherwise it raises.
compute_forecast(model, run, rows, horizon_days, lenient) ==
    LET price_df == build_price_frame(rows)
        series == build_return_series(price_df)
    IN  IF IsNone(price_df) \/ FrameLen(price_df) < 6 THEN NoForecast
        ELSE IF IsNone(series) \/ SeriesLen(series) < 5 THEN NoForecast
        ELSE
        LET input_chunk == model.input_chunk_length
            output_chunk == model.output_chunk_length
            forecast_horizon == IF run.model_family = "RNNModel" THEN 1
                                ELSE Max(1, output_chunk)
            first_point == series.first + input_chunk + forecast_horizon - 1
            historical_points == PointsOf(model, first_point, series.last)
            residuals == [i \in 1..Len(historical_points) |->
                             log_return(price_df, historical_points[i].date)
                                 - historical_points[i].value]
            future_points == PointsOf(model, series.last + 1, series.last + horizon_days)
            unserved == first_point > series.last \/ horizon_days <= 0
        IN  IF unserved /\ ~lenient THEN [NoForecast EXCEPT !.raised = TRUE]
            ELSE Only({[raised |-> FALSE,
                        rows |-> forecast_rows_of(historical_points, future_points,
                                                  price_df, ci_width),
                        historical_points |-> historical_points,
                        future_points |-> future_points,
                        residuals |-> residuals,
                        ci_width |-> ci_width] :
                       ci_width \in {ci_width_of(residuals)}})

\* _to_decimal: Decimal(str(value))
to_decimal(value) == <<"Decimal", value>>

StoredRow(crypto_id, row, horizon_days, cutoff_date, model_run_id) ==
    [crypto_id |-> crypto_id, date |-> row.date,
     yhat |-> to_decimal(row.yhat),
     yhat_lower |-> to_decimal(row.yhat_lower),
     yhat_upper |-> to_decimal(row.yhat_upper),
     cutoff_date |-> cutoff_date, horizon_days |-> horizon_days,
     model_run_id |-> model_run_id]

\* _store_forecast_rows on the rows of one table: the rows of the table after
\* the call, and whether the commit raised (two rows of one asset and date)
store_forecast_rows(table, crypto_id, rows, horizon_days, cutoff_date, model_run_id) ==
    IF horizon_days <= 0 \/ rows = <<>> THEN [raised |-> FALSE, table |-> table]
    ELSE LET others == {r \in table : r.crypto_id # crypto_id}
             records == [i \in 1..Len(rows) |->
                            StoredRow(crypto_id, rows[i], horizon_days, cutoff_date,
                                      model_run_id)]
             clash == \E i, j \in 1..Len(rows) : i # j /\ rows[i].date = rows[j].date
         IN  IF clash THEN [raised |-> TRUE, table |-> table]
             ELSE [raised |-> FALSE,
                   table |-> others \cup {records[i] : i \in 1..Len(records)}]

PredictResult(a, status, error, rows, forecast) ==
    [op |-> "predict", args |-> a, status |-> status, error |-> error, rows |-> rows,
     forecast |-> forecast]

\* a call of predict_with_global_model with one of the given arguments
PredictWithGlobalModel(arguments) ==
    /\ nOps < MaxOps
    /\ nOps' = nOps + 1
    /\ \E a \in arguments :
       IF a.model_run_id \notin 1..Len(runs)
       THEN /\ opResult' = PredictResult(a, "error", RunNotFound, <<>>, NoForecast)
            /\ UNCHANGED <<lstm_forecasts, gru_forecasts>>
       ELSE
       LET run == runs[a.model_run_id]
           horizon_days == IF a.horizon_days = NoneVal THEN run.horizon_days
                           ELSE a.horizon_days[2]
           table == IF run.cell_type = "GRU" THEN gru_forecasts ELSE lstm_forecasts
           Fails(message) ==
               /\ opResult' = PredictResult(a, "error", message, <<>>, NoForecast)
               /\ UNCHANGED <<lstm_forecasts, gru_forecasts>>
           Empty ==
               /\ opResult' = PredictResult(a, "ok", "", <<>>, NoForecast)
               /\ UNCHANGED <<lstm_forecasts, gru_forecasts>>
       IN  IF ~a.allow_unseen
              /\ ~\E i \in 1..Len(run.training_crypto_ids) :
                     run.training_crypto_ids[i] = a.crypto_id
           THEN Fails(NotInTrainingSet)
           ELSE \E rows \in {fetch_price_series(a.crypto_id, 0)} :
                IF Len(rows) < 5 THEN Empty
                ELSE \E loaded \in {load_global_model(run, "best_checkpoint")} :
                     IF loaded.status = "error" THEN Fails(loaded.error)
                     ELSE
                     \E forecast \in {compute_forecast(loaded.model, run, rows,
                                                       horizon_days, a.lenient)} :
                     IF forecast.raised THEN Fails(LibraryError)
                     ELSE IF forecast.rows = <<>> THEN Empty
                     ELSE \E stored \in {store_forecast_rows(
                                              table, a.crypto_id, forecast.rows,
                                              horizon_days, rows[Len(rows)].date,
                                              a.model_run_id)} :
                          IF stored.raised THEN Fails(IntegrityError)
                          ELSE /\ opResult' = PredictResult(a, "ok", "", forecast.rows,
                                                            forecast)
                               /\ IF run.cell_type = "GRU"
                                  THEN /\ gru_forecasts' = stored.table
                                       /\ UNCHANGED lstm_forecasts
                                  ELSE /\ lstm_forecasts' = stored.table
                                       /\ UNCHANGED gru_forecasts
    /\ UNCHANGED <<prices, runs, files>>

\* ---- inputs ---------------------------------------------------------------
NoResult == [op |-> "none"]

\* nothing stored: no price, no run, no artifact, no forecast
StoreIdle ==
    /\ prices = [c \in Assets |-> {}]
    /\ runs = <<>>
    /\ files = {}
    /\ lstm_forecasts = {}
    /\ gru_forecasts = {}
    /\ opResult = NoResult
    /\ nOps = 0

\* the price histories the caller has supplied, nothing trained yet
StoreInit(kinds, patterns) ==
    /\ \E pattern \in patterns :
          prices \in {[c \in Assets |-> PriceRows(k[c], pattern)] : k \in kinds}
    /\ runs = <<>>
    /\ files = {}
    /\ lstm_forecasts = {}
    /\ gru_forecasts = {}
    /\ opResult = NoResult
    /\ nOps = 0

Hyperparams(input_chunk_length, output_chunk_length, training_length, val_split) ==
    [input_chunk_length |-> input_chunk_length,
     output_chunk_length |-> output_chunk_length,
     training_length |-> training_length, val_split |-> val_split]

TrainHorizon == 2       \* horizon_days of the training requests
TrainWindow == 7        \* training_days of the requests that limit the history

\* the hyperparameters of the end-to-end test, a small block model with a
\* large validation share, and the defaults of train_global_model
HyperparamChoices ==
    {Hyperparams(6, 3, 8, Frac(1, 5)),
     Hyperparams(5, 1, 6, Frac(3, 10)),
     Hyperparams(DefaultInputChunk, TrainHorizon, DefaultTrainingLength, Frac(1, 5))}

\* lists of at most two requested assets, repeats included
IdLists == {<<>>} \cup {<<c>> : c \in Assets} \cup {<<c, d>> : c, d \in Assets}

TrainRequest(model_family, cell_type, hyperparams, crypto_ids, learned) ==
    [model_family |-> model_family, cell_type |-> cell_type,
     hyperparams |-> hyperparams, crypto_ids |-> crypto_ids,
     horizon_days |-> TrainHorizon, training_days |-> 0, update_run |-> 0,
     warm_start_run |-> 0, warm_start_mode |-> "none",
     fp_low |-> FALSE,
     fit_val |-> "ok", fit_plain |-> "ok", learned |-> learned]

\* every request of one training call
TrainRequests ==
    {[TrainRequest(family, "LSTM", hp, ids, "flat")
         EXCEPT !.fp_low = fp_low, !.fit_val = fit_val, !.fit_plain = fit_plain,
                !.training_days = days] :
        family \in {"RNNModel", "BlockRNNModel"}, hp \in HyperparamChoices,
        ids \in IdLists, fp_low \in BOOLEAN, days \in {0, TrainWindow},
        fit_val \in {"ok", "reject", "error"}, fit_plain \in {"ok", "error"}}

\* the requests that set up runs to forecast from
ForecastTrainRequests ==
    {TrainRequest("RNNModel", "LSTM", Hyperparams(6, 3, 8, Frac(1, 5)), <<1, 2>>, "flat"),
     TrainRequest("RNNModel", "GRU", Hyperparams(5, 1, 6, Frac(3, 10)), <<1>>, "drift"),
     TrainRequest("BlockRNNModel", "LSTM", Hyperparams(5, 1, 6, Frac(3, 10)), <<1, 2>>,
                  "drift"),
     TrainRequest("BlockRNNModel", "GRU", Hyperparams(6, 3, 8, Frac(1, 5)), <<2, 1>>,
                  "flat")}

\* the arguments of a forecast call on the runs there are: the run's own
\* horizon or horizon 0, seen assets only or any, either library behaviour
PredictArguments ==
    [model_run_id : 1..Max(1, Len(runs)), crypto_id : Assets,
     horizon_days : {NoneVal}, allow_unseen : BOOLEAN, lenient : BOOLEAN]
    \cup
    [model_run_id : 1..Max(1, Len(runs)), crypto_id : Assets,
     horizon_days : {IntVal(0)}, allow_unseen : {TRUE}, lenient : BOOLEAN]

\* one training call on a store that has seen none
TrainOnce == opResult = NoResult /\ TrainGlobalModel(TrainRequests)

TrainForForecast == TrainGlobalModel(ForecastTrainRequests)

MaxTrainings == 2       \* training calls made on one registry

\* the requests made on a registry: new runs and retrains in place of the runs
\* there are, with a library that accepts or rejects the validation series
RegistryRequests ==
    {[TrainRequest("BlockRNNModel", "LSTM", hp, ids, "flat")
         EXCEPT !.fit_val = fit_val, !.update_run = update_run] :
        hp \in {Hyperparams(5, 1, 6, Frac(3, 10)), Hyperparams(5, 1, 6, Zero),
                Hyperparams(6, 3, 8, Zero)},
        ids \in {<<1>>, <<1, 2>>}, fit_val \in {"ok", "reject"},
        update_run \in 0..MaxTrainings}

TrainRegistered == nOps < MaxTrainings /\ TrainGlobalModel(RegistryRequests)
\* ---- train_global_model statement by statement: fit, retry, save, commit -----
\* what model.fit does when called with and without validation series
FitOutcome(rq, with_val) == IF with_val THEN rq.fit_val ELSE rq.fit_plain

\* the result of a call that raised
Raised(rq, message, fits) ==
    [op |-> "train", args |-> rq, status |-> "error", error |-> message, run_id |-> 0,
     fits |-> fits]

\* lines 198-506: everything before the first model.fit; nothing is written.
\* out holds the locals of the call: the paths, hyperparameters and dates it
\* will record and the model it is about to fit
TrainBegin(requests) ==
    /\ opResult.op # "training"
    /\ nOps' = nOps + 1
    /\ \E rq \in requests :
          /\ rq.update_run = 0 \/ rq.update_run \in 1..Len(runs)
          /\ rq.update_run # 0 => runs[rq.update_run] # DeletedRun
          /\ rq.warm_start_run = 0 \/ rq.warm_start_run \in 1..Len(runs)
          /\ \E fitting \in {[rq EXCEPT !.fit_val = "ok", !.fit_plain = "ok"]} :
             \E plan \in {train_global_model(fitting)} :
             \E out \in {train_global_model(rq)} :
                opResult' = IF plan.status = "error" THEN Raised(rq, plan.error, <<>>)
                            ELSE [op |-> "training", pc |-> "fit", args |-> rq,
                                  use_val |-> plan.use_val, fits |-> <<>>,
                                  out |-> out]
    /\ UNCHANGED <<prices, runs, files, lstm_forecasts, gru_forecasts>>

\* a fit that retries without validation whatever the first fit raised
TrainFitRetryAny ==
    /\ opResult.op = "training" /\ opResult.pc = "fit"
    /\ \E fitted \in {FitOutcome(opResult.args, opResult.use_val)} :
       \E fits \in {Append(opResult.fits, [val_series |-> opResult.use_val,
                                            outcome |-> fitted])} :
          opResult' = IF fitted = "ok"
                      THEN [opResult EXCEPT !.fits = fits, !.pc = "save"]
                      ELSE IF opResult.use_val
                      THEN [opResult EXCEPT !.fits = fits, !.pc = "retry"]
                      ELSE Raised(opResult.args, FitFailed, fits)
    /\ UNCHANGED <<prices, runs, files, lstm_forecasts, gru_forecasts, nOps>>

\* lines 507-541: model.fit with the validation series when use_val, without
\* them otherwise; a ValueError carrying one of the two retry messages from the
\* fit with validation leads to the retry, anything else is raised
TrainFit ==
    /\ opResult.op = "training" /\ opResult.pc = "fit"
    /\ \E fitted \in {FitOutcome(opResult.args, opResult.use_val)} :
       \E fits \in {Append(opResult.fits, [val_series |-> opResult.use_val,
                                            outcome |-> fitted])} :
          opResult' = IF fitted = "ok"
                      THEN [opResult EXCEPT !.fits = fits, !.pc = "save"]
                      ELSE IF fitted = "reject" /\ opResult.use_val
                      THEN [opResult EXCEPT !.fits = fits, !.pc = "retry"]
                      ELSE Raised(opResult.args, FitFailed, fits)
    /\ UNCHANGED <<prices, runs, files, lstm_forecasts, gru_forecasts, nOps>>

\* lines 525-534: the retry, inside the except block and without validation
TrainRetry ==
    /\ opResult.op = "training" /\ opResult.pc = "retry"
    /\ \E fitted \in {FitOutcome(opResult.args, FALSE)} :
       \E fits \in {Append(opResult.fits, [val_series |-> FALSE, outcome |-> fitted])} :
          opResult' = IF fitted = "ok"
                      THEN [opResult EXCEPT !.fits = fits, !.pc = "save"]
                      ELSE Raised(opResult.args, FitFailed, fits)
    /\ UNCHANGED <<prices, runs, files, lstm_forecasts, gru_forecasts, nOps>>

SaveFailed == "save raised"

\* a save whose failure is swallowed: the call goes on to write the row
TrainSaveFailureIgnored ==
    /\ opResult.op = "training" /\ opResult.pc = "save"
    /\ \E out \in {opResult.out} :
          /\ \/ /\ files' = SaveModel(out.run.artifact_path_pt, out.model)
                /\ opResult' = [opResult EXCEPT !.pc = "commit"]
             \/ /\ files' = files
                /\ opResult' = [opResult EXCEPT !.pc = "commit"]
    /\ UNCHANGED <<prices, runs, lstm_forecasts, gru_forecasts, nOps>>

\* line 546: model.save(artifact_path_pt) writes the artifact, or raises
TrainSave ==
    /\ opResult.op = "training" /\ opResult.pc = "save"
    /\ \E out \in {opResult.out} :
          /\ \/ /\ files' = SaveModel(out.run.artifact_path_pt, out.model)
                /\ opResult' = [opResult EXCEPT !.pc = "commit"]
             \/ /\ files' = files
                /\ opResult' = Raised(opResult.args, SaveFailed, opResult.fits)
    /\ UNCHANGED <<prices, runs, lstm_forecasts, gru_forecasts, nOps>>

\* lines 547-579: the fields of update_run are replaced and committed, or
\* create_model_run adds a row
TrainCommit ==
    /\ opResult.op = "training" /\ opResult.pc = "commit"
    /\ \E rq \in {opResult.args} :
       \E out \in {opResult.out} :
          /\ runs' = written_runs(rq, out.run)
          /\ opResult' = [op |-> "train", args |-> rq, status |-> "ok", error |-> "",
                          run_id |-> IF rq.update_run # 0 THEN rq.update_run
                                     ELSE Len(runs) + 1,
                          fit_series |-> out.fit_series,
                          use_val |-> out.use_val,
                          actual_use_val |-> out.actual_use_val,
                          fits |-> opResult.fits]
    /\ UNCHANGED <<prices, files, lstm_forecasts, gru_forecasts, nOps>>

\* the training calls followed statement by statement: new runs and retrains
\* in place, with a library whose fit succeeds, rejects the validation series
\* or fails
FitRequests ==
    {[TrainRequest("BlockRNNModel", "LSTM", hp, <<1, 2>>, learned)
         EXCEPT !.fit_val = fit_val, !.fit_plain = fit_plain,
                !.update_run = update_run] :
        hp \in {Hyperparams(5, 1, 6, Frac(3, 10)), Hyperparams(6, 3, 8, Zero)},
        learned \in {"flat"},
        fit_val \in {"ok", "reject", "error"}, fit_plain \in {"ok", "error"},
        update_run \in 0..1}

TrainStart == nOps < MaxTrainings /\ TrainBegin(FitRequests)

\* ---- training calls that start from the weights of an earlier run ----------
MaxWarmStarts == 1      \* training calls made on the seeded registry

\* a run that was trained, or one created without an artifact path; its files
\* are on disk, or gone, or the checkpoint next to the artifact is gone
WarmInit ==
    /\ prices = [c \in Assets |-> PriceRows("long", "wavy")]
    /\ opResult = NoResult
    /\ nOps = 0
    /\ lstm_forecasts = {}
    /\ gru_forecasts = {}
    /\ \E learned \in {"flat", "drift"} :
       \E seed \in {train_global_model(
                        TrainRequest("BlockRNNModel", "LSTM",
                                     Hyperparams(5, 1, 6, Frac(3, 10)), <<1, 2>>, learned))} :
          /\ runs \in {<<seed.run>>, <<[seed.run EXCEPT !.artifact_path_pt = <<>>]>>}
          /\ files \in {{[path |-> q, model |-> seed.model] : q \in present} :
                           present \in {{seed.run.artifact_path_pt,
                                         Sidecar(seed.run.artifact_path_pt)},
                                        {seed.run.artifact_path_pt}, {}}}

\* cold starts and warm starts from a run there is, new runs and retrains in
\* place
WarmRequests ==
    {[TrainRequest("BlockRNNModel", "LSTM", hp, <<1, 2>>, learned)
         EXCEPT !.update_run = update_run, !.warm_start_run = warm[1],
                !.warm_start_mode = warm[2]] :
        hp \in {Hyperparams(5, 1, 6, Frac(3, 10)), Hyperparams(6, 3, 8, Zero)},
        learned \in {"flat", "drift"}, update_run \in 0..1,
        warm \in {<<0, "none">>} \cup ((1..(MaxWarmStarts + 1)) \X {"weights", "none"})}

TrainWarm == nOps < MaxWarmStarts /\ TrainGlobalModel(WarmRequests)

\* ---- _compute_forecast on whatever points the library returns ---------------
MaxPoints == 2          \* points in one answer of the library

\* sequences of at most MaxPoints points dated around the last price
RECURSIVE PointSeqs(_, _)
PointSeqs(dates, n) ==
    IF n = 0 THEN {<<>>}
    ELSE PointSeqs(dates, n - 1)
         \cup {Append(s, [date |-> d, value |-> 0]) :
                  s \in {q \in PointSeqs(dates, n - 1) : Len(q) = n - 1}, d \in dates}

\* a short price history and an answer of historical_forecasts and of predict
MergeInit ==
    /\ prices = [c \in Assets |-> PriceRows("six", "wavy")]
    /\ runs = <<>>
    /\ files = {}
    /\ lstm_forecasts = {}
    /\ gru_forecasts = {}
    /\ nOps = 0
    /\ \E price_df \in {price_frame_of(1, 0)} :
       \E dates \in {(price_df.last - 1)..(price_df.last + 2)} :
          opResult \in [op : {"library"},
                        historical_points : PointSeqs(dates, MaxPoints),
                        future_points : PointSeqs(dates, MaxPoints)]

\* the row-building part of _compute_forecast on those answers
ComputeForecastRows ==
    /\ opResult.op = "library"
    /\ opResult' = [op |-> "rows",
                    historical_points |-> opResult.historical_points,
                    future_points |-> opResult.future_points,
                    rows |-> forecast_rows_of(opResult.historical_points,
                                              opResult.future_points,
                                              price_frame_of(1, 0), 0)]
    /\ UNCHANGED <<prices, runs, files, lstm_forecasts, gru_forecasts, nOps>>

Predict == PredictWithGlobalModel(PredictArguments)

\* ---- routes/charts.py: recalculate_lstm, recalculate_gru (global scope) ------
\* an id no asset has
UnknownId == Cardinality(Assets) + 1

\* the forms posted to /cryptos/<crypto_id>/lstm and /gru with scope
\* global_shared: the extra ids ticked, the run selected, the retrain box
RouteForms ==
    [route : {"lstm", "gru"}, crypto_id : Assets,
     crypto_ids : {<<>>, <<2>>, <<1, 2, UnknownId>>},
     run_id : 0..MaxOps, retrain : BOOLEAN]

\* job_session.get(ForecastModelRun, run_id): 0 stands for None
selected_run(form) == IF form.run_id \in 1..Len(runs) THEN form.run_id ELSE 0

\* the hyperparameters a run records, as a request gives them
hyperparams_of(run) ==
    Hyperparams(hyperparam(run, "input_chunk_length"),
                hyperparam(run, "output_chunk_length"),
                hyperparam(run, "training_length"),
                Frac(hyperparam(run, "val_split"), 1000))

\* _global_model_has_artifacts: the saved file and its sidecar are there
global_model_has_artifacts(run) ==
    IF run.artifact_path_pt # <<>> /\ isfile(run.artifact_path_pt)
    THEN isfile(Sidecar(run.artifact_path_pt))
    ELSE /\ run.work_dir # "" /\ run.model_name # <<>>
         /\ isfile(BasePath(run))
         /\ \E dir \in CheckpointDirs(run) : \E name \in listdir(dir) : StartsWithBest(name)

\* crypto_ids of the training calls of run_lstm and run_gru
route_crypto_ids(form) == <<form.crypto_id>>

\* the training call run_lstm or run_gru makes for the form: the retrain in
\* place of the selected run, or the training of a new run
route_train_request(form) ==
    LET sel == selected_run(form)
        retrain == sel # 0 /\ form.retrain
        hyperparams == Hyperparams(DefaultInputChunk, 1, DefaultInputChunk + TrainHorizon,
                                   Frac(1, 5))
        ids == route_crypto_ids(form)
    IN  [model_family |-> IF sel # 0 THEN runs[sel].model_family ELSE "RNNModel",
         cell_type |-> IF form.route = "gru" THEN "GRU" ELSE "LSTM",
         hyperparams |-> IF sel # 0 THEN hyperparams_of(runs[sel]) ELSE hyperparams,
         crypto_ids |-> ids,
         horizon_days |-> TrainHorizon, training_days |-> 0,
         update_run |-> IF retrain THEN sel ELSE 0,
         warm_start_run |-> IF retrain THEN sel ELSE 0,
         warm_start_mode |-> IF retrain THEN "weights" ELSE "none",
         fp_low |-> FALSE, fit_val |-> "ok", fit_plain |-> "ok", learned |-> "flat",
         form |-> form, selected |-> sel,
         selected_ids |-> IF sel # 0 THEN runs[sel].training_crypto_ids ELSE <<>>]

\* the last call was made by a forecast route and its forecast is still to come
RoutePending ==
    /\ opResult.op \in {"train", "select"} /\ opResult.status = "ok"
    /\ "form" \in DOMAIN opResult.args

\* run_lstm / run_gru up to the run they forecast from: the selected run as it
\* is, the selected run retrained in place, or a new run
RouteTrain ==
    /\ ~RoutePending
    /\ nOps + 1 < MaxOps
    /\ \E form \in RouteForms :
          \E rq \in {route_train_request(form)} :
             IF rq.selected # 0 /\ ~form.retrain
                /\ global_model_has_artifacts(runs[rq.selected])
             THEN /\ opResult' = [op |-> "select", args |-> rq, status |-> "ok",
                                  error |-> "", run_id |-> rq.selected]
                  /\ nOps' = nOps + 1
                  /\ UNCHANGED <<prices, runs, files, lstm_forecasts, gru_forecasts>>
             ELSE TrainGlobalModel({rq})

\* the rest of run_lstm / run_gru: the forecast from that run for the page's
\* asset, stored in the table of the run
RoutePredict ==
    /\ RoutePending
    /\ PredictWithGlobalModel({[model_run_id |-> opResult.run_id,
                                crypto_id |-> opResult.args.form.crypto_id,
                                horizon_days |-> IntVal(TrainHorizon),
                                allow_unseen |-> TRUE, lenient |-> FALSE]})

\* a run trained outside the routes, on one or both assets
SeedRun == ~RoutePending /\ TrainGlobalModel(ForecastTrainRequests)

\* ---- forecast jobs and the request handlers that write forecast tables ------
\* the asset of the page a job key belongs to, and the run its task forecasts
\* from: the first run (LSTM) for the lstm job, the second (GRU) for the gru job
AssetOfKey(k) == 1
RunOfKey(k) == IF k = "gru:1" THEN 2 ELSE 1

\* the forecast table the job of background thread t writes to
TableOfThread(t) == IF thr[t].key = "gru:1" THEN gru_forecasts ELSE lstm_forecasts

\* the task of a forecast job up to the DELETE of _store_forecast_rows (line
\* 121): the forecast is computed from the run's model and the asset's rows in
\* the run's table are deleted; the records to insert are in hand
ForecastDelete(t) ==
    /\ thr[t].pc = "target"
    /\ runs[RunOfKey(thr[t].key)] # DeletedRun
    /\ \E run \in {runs[RunOfKey(thr[t].key)]} :
       \E rows \in {fetch_price_series(AssetOfKey(thr[t].key), 0)} :
       \E loaded \in {load_global_model(run, "best_checkpoint")} :
          /\ loaded.status = "ok"
          /\ \E forecast \in {compute_forecast(loaded.model, run, rows, run.horizon_days,
                                                FALSE)} :
                /\ ~forecast.raised /\ forecast.rows # <<>>
                /\ thr' = [thr EXCEPT ![t].pc = "between",
                              ![t].replaced =
                                  {r \in TableOfThread(t) :
                                      r.crypto_id = AssetOfKey(thr[t].key)},
                              ![t].records =
                                  {StoredRow(AssetOfKey(thr[t].key), forecast.rows[i],
                                             run.horizon_days, rows[Len(rows)].date,
                                             RunOfKey(thr[t].key)) :
                                      i \in 1..Len(forecast.rows)}]
          /\ IF run.cell_type = "GRU"
             THEN /\ gru_forecasts' = {r \in gru_forecasts :
                                          r.crypto_id # AssetOfKey(thr[t].key)}
                  /\ UNCHANGED lstm_forecasts
             ELSE /\ lstm_forecasts' = {r \in lstm_forecasts :
                                           r.crypto_id # AssetOfKey(thr[t].key)}
                  /\ UNCHANGED gru_forecasts
    /\ UNCHANGED <<JOBS, jobOrder, lock, cpc, call, ret, nextObj, nextTask, ran, outcome,
                   clock, prices, runs, files, opResult, nOps>>

\* lines 137-139: the records are inserted and committed; the task returns
\* their number
ForecastInsert(t) ==
    /\ thr[t].pc = "between"
    /\ thr' = [thr EXCEPT ![t].pc = "finish", ![t].records = {}, ![t].replaced = {},
                          ![t].result = IntVal(Cardinality(thr[t].records))]
    /\ IF thr[t].key = "gru:1"
       THEN /\ gru_forecasts' = gru_forecasts \cup thr[t].records
            /\ UNCHANGED lstm_forecasts
       ELSE /\ lstm_forecasts' = lstm_forecasts \cup thr[t].records
            /\ UNCHANGED gru_forecasts
    /\ UNCHANGED <<JOBS, jobOrder, lock, cpc, call, ret, nextObj, nextTask, ran, outcome,
                   clock, prices, runs, files, opResult, nOps>>

\* line 138 on a table whose model_run_id carries the foreign key of models.py
\* 135 / 152 in a database that enforces it: the insert of rows of a run that
\* is gone raises, the transaction with the delete is rolled back and the
\* deletion handler's update reaches the rows that come back. A table that got
\* the column from db.py's ALTER TABLE has no such key, and ForecastInsert
\* stands for it.
ForecastInsertRejected(t) ==
    /\ thr[t].pc = "between"
    /\ runs[RunOfKey(thr[t].key)] = DeletedRun
    /\ thr' = [thr EXCEPT ![t].pc = "finish", ![t].records = {}, ![t].replaced = {},
                          ![t].exc = <<"Exception", "IntegrityError">>,
                          ![t].error_message = <<"IntegrityError">>]
    /\ \E restored \in {{IF r.model_run_id # 0 /\ runs[r.model_run_id] = DeletedRun
                          THEN [r EXCEPT !.model_run_id = 0] ELSE r :
                             r \in thr[t].replaced}} :
          IF thr[t].key = "gru:1"
          THEN /\ gru_forecasts' = gru_forecasts \cup restored
               /\ UNCHANGED lstm_forecasts
          ELSE /\ lstm_forecasts' = lstm_forecasts \cup restored
               /\ UNCHANGED gru_forecasts
    /\ UNCHANGED <<JOBS, jobOrder, lock, cpc, call, ret, nextObj, nextTask, ran, outcome,
                   clock, prices, runs, files, opResult, nOps>>

\* the files _delete_global_model_files removes
FilesOfRun(run) ==
    {f \in files : \/ f.path \in {run.artifact_path_pt, Sidecar(run.artifact_path_pt)}
                   \/ /\ Len(f.path) > 3
                      /\ SubSeq(f.path, 1, 3) \in {<<run.work_dir, ".", run.model_name>>,
                                                   <<run.work_dir, "darts_logs",
                                                     run.model_name>>}}

\* POST /cryptos/<id>/global-models/delete, handled in the request thread: the
\* forecast rows of the run lose their model_run_id (0 stands for NULL; run ids
\* start at 1), the run's row and files are removed
DeleteGlobalModelRun(run_id) ==
    /\ run_id \in 1..Len(runs)
    /\ runs[run_id] # DeletedRun
    /\ runs[run_id].scope = "global_shared"
    /\ IF runs[run_id].cell_type = "LSTM"
       THEN /\ lstm_forecasts' = {IF r.model_run_id = run_id
                                   THEN [r EXCEPT !.model_run_id = 0] ELSE r :
                                      r \in lstm_forecasts}
            /\ UNCHANGED gru_forecasts
       ELSE /\ gru_forecasts' = {IF r.model_run_id = run_id
                                  THEN [r EXCEPT !.model_run_id = 0] ELSE r :
                                     r \in gru_forecasts}
            /\ UNCHANGED lstm_forecasts
    /\ runs' = [runs EXCEPT ![run_id] = DeletedRun]
    /\ files' = files \ FilesOfRun(runs[run_id])
    /\ UNCHANGED <<jobVars, prices, opResult, nOps>>

\* a training call on a registry where runs may have been deleted: the route
\* retrains in place only a run that session.get still finds (charts.py 586-602)
TrainAmongDeletions ==
    /\ nOps < MaxTrainings
    /\ TrainGlobalModel({rq \in RegistryRequests :
                            \/ rq.update_run = 0
                            \/ /\ rq.update_run \in 1..Len(runs)
                               /\ runs[rq.update_run] # DeletedRun})

\* an LSTM run and a GRU run with their artifacts, and the forecast of the
\* second asset stored from the LSTM run
WritesInit ==
    /\ prices = [c \in Assets |-> PriceRows("long", "wavy")]
    /\ opResult = NoResult
    /\ nOps = 0
    /\ \E lstm \in {train_global_model(
                        TrainRequest("RNNModel", "LSTM", Hyperparams(6, 3, 8, Frac(1, 5)),
                                     <<1, 2>>, "flat"))} :
       \E gru \in {train_global_model(
                       TrainRequest("RNNModel", "GRU", Hyperparams(5, 1, 6, Frac(3, 10)),
                                    <<1>>, "drift"))} :
       \E rows \in {fetch_price_series(2, 0)} :
          /\ runs = <<lstm.run, gru.run>>
          /\ files = {[path |-> q, model |-> lstm.model] :
                         q \in {lstm.run.artifact_path_pt,
                                Sidecar(lstm.run.artifact_path_pt)}}
                     \cup {[path |-> q, model |-> gru.model] :
                              q \in {gru.run.artifact_path_pt,
                                     Sidecar(gru.run.artifact_path_pt)}}
          /\ lstm_forecasts =
                 store_forecast_rows({}, 2,
                                     compute_forecast(lstm.model, lstm.run, rows,
                                                      TrainHorizon, FALSE).rows,
                                     TrainHorizon, rows[Len(rows)].date, 1).table
          /\ gru_forecasts = {}

\* ---- load_global_model on the files a run can have --------------------------
\* a call of load_global_model on the first run
LoadGlobalModel ==
    /\ opResult = NoResult
    /\ \E prefer \in {"best_checkpoint", "artifact"} :
          opResult' = [op |-> "load", args |-> [model_run_id |-> 1, prefer |-> prefer],
                       loaded |-> load_global_model(runs[1], prefer)]
    /\ nOps' = nOps + 1
    /\ UNCHANGED <<prices, runs, files, lstm_forecasts, gru_forecasts>>

\* every file, or none: the file with one of the contents
FileChoices(path, contents) == {{}} \cup {{[path |-> path, model |-> c]} : c \in contents}

\* the files that can lie under the paths of a run whose training saved
\* `model`: the artifact and its sidecar, the base file, a best and a last
\* checkpoint in the model directory, a best checkpoint under darts_logs;
\* readable or not
FileSystems(run, model) ==
    LET ckpt == [model EXCEPT !.learned = "drift"]
        dir == <<run.work_dir, ".", run.model_name, "checkpoints">>
        logs == <<run.work_dir, "darts_logs", run.model_name, "checkpoints">>
    IN  {a \cup b \cup c \cup d \cup e \cup f :
            a \in FileChoices(run.artifact_path_pt, {model, Corrupt}),
            b \in FileChoices(Sidecar(run.artifact_path_pt), {model}),
            c \in FileChoices(BasePath(run), {model, Corrupt}),
            d \in FileChoices(dir \o <<"best-", "epoch=3">>, {ckpt, Corrupt}),
            e \in FileChoices(dir \o <<"last-", "epoch=9">>, {model}),
            f \in FileChoices(logs \o <<"best-", "epoch=2">>, {ckpt, Corrupt})}

\* a run as train_global_model records it, with any of the files it can have
LoadInit ==
    /\ prices = [c \in Assets |-> PriceRows("long", "wavy")]
    /\ lstm_forecasts = {}
    /\ gru_forecasts = {}
    /\ opResult = NoResult
    /\ nOps = 0
    /\ \E rq \in ForecastTrainRequests :
          \E out \in {train_global_model(rq)} :
             /\ runs = <<out.run>>
             /\ files \in FileSystems(out.run, out.model)

\* ---- claims ---------------------------------------------------------------
\* the last call was a forecast that returned rows
PredictSucceeded ==
    opResult.op = "predict" /\ opResult.status = "ok" /\ opResult.rows # <<>>

\* the forecast table the run of the last forecast call writes to
TableOfLast ==
    IF runs[opResult.args.model_run_id].cell_type = "GRU" THEN gru_forecasts
    ELSE lstm_forecasts

ReturnedRowsStored(result, table) ==
    \A i \in 1..Len(result.rows) :
        \E r \in table : /\ r.crypto_id = result.args.crypto_id
                          /\ r.model_run_id = result.args.model_run_id
                          /\ r.date = result.rows[i].date
                          /\ r.yhat = to_decimal(result.rows[i].yhat)

C25_FailureFrame ==
    [][(opResult'.op = "predict" /\ nOps' = nOps + 1
            /\ (opResult'.status = "error" \/ opResult'.rows = <<>>))
          => lstm_forecasts' = lstm_forecasts /\ gru_forecasts' = gru_forecasts
      ]_vars

\* the sizing train_global_model resolved for the series it fitted
SizingOfLast ==
    sizing_of(opResult.args,
              min_series_len(opResult.fit_series, opResult.args.training_days))

\* every fitted asset's validation slice has the points the resolved sizes need
ValSlicesLongEnough(rq, payloads, sizing) ==
    \A i \in 1..Len(payloads) :
        val_len_of(payloads[i], rq.training_days, sizing.val_split)
            >= min_required_length(rq.model_family = "RNNModel", sizing.input_chunk,
                                   sizing.output_chunk, sizing.training_length)

C26_NoSecondReduction ==
    (szpc = "global" /\ FracLT(Zero, szOut.val_split)) =>
        /\ szOut.fit_len >= szOut.min_required
        /\ <<szOut.input_chunk, szOut.output_chunk>>
              = resolve_chunk_lengths(szIn.series_len, szIn.input_chunk_length,
                                      IF szIn.family = "rnn" THEN 1
                                      ELSE szIn.output_chunk_length)

WellBehaved(historical_points, future_points, last) ==
    /\ \A i \in 1..Len(historical_points) :
          /\ historical_points[i].date <= last
          /\ i > 1 => historical_points[i - 1].date < historical_points[i].date
    /\ \A i \in 1..Len(future_points) :
          /\ future_points[i].date > last
          /\ i > 1 => future_points[i - 1].date < future_points[i].date

\* for such answers the rows are ordered and distinct
C27_WellBehavedLibrary ==
    (opResult.op = "rows"
        /\ WellBehaved(opResult.historical_points, opResult.future_points,
                       price_frame_of(1, 0).last))
      => \A i, j \in 1..Len(opResult.rows) :
             i < j => opResult.rows[i].date < opResult.rows[j].date

\* days from the first to the last stored price of the asset, among the
\* prices of the last `window` days when window > 0
FrameDays(crypto_id, window) ==
    LET days == {r.date : r \in {q \in prices[crypto_id] :
                                    window > 0 => q.date >= Today - window}}
    IN  IF days = {} THEN 0 ELSE MaxOf(days) - MinOf(days) + 1

\* C8: train_global_model leaves out every requested asset whose history (of
\* the requested training window) gives fewer than 6 price-frame days or fewer than 6 return points (one
\* fewer than the frame days) and fits on the others; the run records exactly
\* the surviving assets in request order; a call with requested assets fails
\* with the not-enough-data error if and only if none of them survives.
C8_Dropout ==
    (opResult.op = "train" /\ opResult.args.crypto_ids # <<>>) =>
        LET window == opResult.args.training_days
            Survives(c) == FrameDays(c, window) >= 6 /\ FrameDays(c, window) - 1 >= 6
            survivors == SelectSeq(opResult.args.crypto_ids, Survives)
        IN  /\ (opResult.status = "error" /\ opResult.error = NotEnoughData)
                  <=> survivors = <<>>
            /\ opResult.status = "ok" =>
                  /\ opResult.fit_series = survivors
                  /\ runs[opResult.run_id].training_crypto_ids = survivors

\* a request for both assets, the second with two days of history, trained on
\* the first alone
C8_Witness ==
    /\ opResult.op = "train" /\ opResult.status = "ok"
    /\ opResult.args.crypto_ids = <<1, 2>>
    /\ FrameDays(2, 0) = 2
    /\ runs[opResult.run_id].training_crypto_ids = <<1>>

\* the price of the last stored day of the asset
LastPrice(crypto_id) ==
    (CHOOSE r \in prices[crypto_id] : \A o \in prices[crypto_id] : o.date <= r.date).price

\* C9: in the rows a forecast returns, each future row is dated the day
\* before its predicted return and priced as the previous price (the last
\* observed price for the first, the yhat of the row before afterwards) times
\* exp(predicted return); when every predicted future return is 0 every
\* future yhat is the last observed price; when every residual is 0 every row
\* has yhat_lower = yhat = yhat_upper.
C9_Reconstruction ==
    PredictSucceeded =>
        LET rows == opResult.rows
            future == opResult.forecast.future_points
            residuals == opResult.forecast.residuals
            n == Len(future)
            h == Len(rows) - n
            last_price == LastPrice(opResult.args.crypto_id)
        IN  /\ h >= 0
            /\ \A i \in 1..n :
                  /\ rows[h + i].date = future[i].date - 1
                  /\ rows[h + i].yhat =
                        TimesExp(IF i = 1 THEN last_price ELSE rows[h + i - 1].yhat,
                                 future[i].value)
            /\ (\A i \in 1..n : future[i].value = 0) =>
                  \A i \in 1..n : rows[h + i].yhat = last_price
            /\ (\A i \in 1..Len(residuals) : residuals[i] = 0) =>
                  \A i \in 1..Len(rows) :
                      rows[i].yhat_lower = rows[i].yhat /\ rows[i].yhat_upper = rows[i].yhat

\* a forecast of two future days by a model that predicts 0 and was right on
\* every back-tested day: both days priced at the last observed price
C9_Witness ==
    /\ PredictSucceeded
    /\ Len(opResult.forecast.future_points) = TrainHorizon
    /\ TrainHorizon >= 2
    /\ Len(opResult.forecast.residuals) >= 2
    /\ \A i \in 1..Len(opResult.forecast.residuals) : opResult.forecast.residuals[i] = 0
    /\ \A i \in 1..2 : opResult.forecast.future_points[i].value = 0
    /\ \A i \in 0..1 :
          opResult.rows[Len(opResult.rows) - i].yhat = LastPrice(opResult.args.crypto_id)

\* the registry key of the fields a run records
KeyOfRun(run) ==
    canonical_model_key(run.scope, run.model_family, run.cell_type, run.horizon_days,
                        run.transform, run.hyperparams_json)

\* the model file at the path the running call saves to
SavedThisCall(out) ==
    /\ out.status = "ok"
    /\ [path |-> out.run.artifact_path_pt, model |-> out.model] \in files

\* the last fit of the call raised something the fallback does not absorb
FitRaised(r) ==
    /\ r.op = "train" /\ r.status = "error" /\ r.error = FitFailed

\* C21: when fit raises an exception the validation fallback does not absorb,
\* the call ends with that error and it has changed neither the ModelRun rows
\* nor the artifact files; rows change only in the step that follows a
\* successful fit and a successful save of this call's model.
C21_FailureAtomic ==
    [][/\ (opResult.op = "training" /\ opResult.pc \in {"fit", "retry"})
             => /\ runs' = runs /\ files' = files
                /\ LET fit == opResult'.fits[Len(opResult'.fits)]
                   IN  \/ fit.outcome = "ok"
                       \/ fit.outcome = "reject" /\ fit.val_series
                                /\ Len(opResult'.fits) = 1
                       \/ FitRaised(opResult')
       /\ (opResult.op # "training" /\ opResult'.op \in {"training", "train"})
             => runs' = runs /\ files' = files
       /\ files' # files => opResult.op = "training" /\ opResult.pc = "save"
                               /\ opResult.fits[Len(opResult.fits)].outcome = "ok"
       /\ runs' # runs =>
             /\ opResult.op = "training" /\ opResult.pc = "commit"
             /\ opResult.fits[Len(opResult.fits)].outcome = "ok"
             /\ SavedThisCall(opResult.out)
             /\ files' = files
      ]_vars

\* a retrain in place whose retry without validation failed, on a registry
\* that holds the run and its artifact: two fits were made, the call raised
C21_Witness ==
    /\ FitRaised(opResult)
    /\ Len(opResult.fits) = 2
    /\ opResult.args.update_run = 1
    /\ Len(runs) = 1 /\ files # {}
    /\ hyperparam(runs[1], "val_split") = 0
    /\ opResult.args.hyperparams.val_split = Frac(3, 10)

\* C22: fit is invoked at most twice in a call; the second invocation follows
\* only a first one that was given validation series and raised a data-shape
\* rejection, and is given none; any other error of the first fit and any
\* error of the second ends the call with that error.
C22_RetryOnce ==
    (opResult.op \in {"training", "train"}) =>
        LET fits == opResult.fits
        IN  /\ Len(fits) <= 2
            /\ Len(fits) = 2 =>
                  /\ fits[1].val_series /\ fits[1].outcome = "reject"
                  /\ ~fits[2].val_series
            /\ \A i \in 1..Len(fits) :
                  (fits[i].outcome # "ok" /\ ~(i = 1 /\ fits[1].val_series
                                                     /\ fits[1].outcome = "reject"))
                      => FitRaised(opResult) /\ i = Len(fits)
            /\ (opResult.op = "training" /\ opResult.pc = "retry") => Len(fits) = 1
            /\ (opResult.op = "training" /\ opResult.pc \in {"save", "commit"})
                  => fits[Len(fits)].outcome = "ok" /\ opResult.out.status = "ok"

\* a call that retried without validation and recorded its run, and before it
\* one whose first fit failed otherwise
C22_Witness ==
    /\ opResult.op = "train" /\ opResult.status = "ok"
    /\ Len(opResult.fits) = 2
    /\ opResult.fits[1].outcome = "reject" /\ opResult.fits[2].outcome = "ok"
    /\ nOps = 2

\* the same call without warm_start_run
ColdStart(rq) == [rq EXCEPT !.warm_start_run = 0, !.warm_start_mode = "none"]

\* the weight file of the run a call warm-starts from is not there
WeightsAbsent(rq) ==
    /\ rq.warm_start_run # 0 /\ rq.warm_start_mode = "weights"
    /\ \/ runs[rq.warm_start_run].artifact_path_pt = <<>>
       \/ ~isfile(Sidecar(runs[rq.warm_start_run].artifact_path_pt))

\* C23: a train_global_model call with a warm_start_run in mode 'weights'
\* whose weight file is absent, or whose artifact path is null, ends as the
\* same call without warm start ends: the same row, the same saved model, the
\* same error if any; and a call not in mode 'weights' saves a model that
\* started from no loaded weights.
C23_WarmStartFallback ==
    [][(opResult'.op = "train" /\ nOps' = nOps + 1) =>
          \A rq \in {opResult'.args} :
             /\ WeightsAbsent(rq) =>
                   \A cold \in {train_global_model(ColdStart(rq))} :
                      IF cold.status = "error"
                      THEN /\ opResult'.status = "error" /\ opResult'.error = cold.error
                           /\ runs' = runs /\ files' = files
                      ELSE /\ opResult'.status = "ok"
                           /\ runs'[opResult'.run_id] = cold.run
                           /\ Len(runs') = IF rq.update_run # 0 THEN Len(runs)
                                           ELSE Len(runs) + 1
                           /\ files' = SaveModel(cold.run.artifact_path_pt, cold.model)
             /\ (rq.warm_start_mode # "weights" /\ opResult'.status = "ok") =>
                   \A f \in files' :
                       f.path = runs'[opResult'.run_id].artifact_path_pt
                           => f.model.weights = NoWeights
      ]_vars

\* a retrain in place that asked for the weights of a run whose checkpoint is
\* gone, and recorded its run
C23_Witness ==
    /\ opResult.op = "train" /\ opResult.status = "ok"
    /\ opResult.args.warm_start_run = 1 /\ opResult.args.warm_start_mode = "weights"
    /\ opResult.args.update_run = 1
    /\ Len(runs) = 1
    /\ \E f \in files : f.path = runs[1].artifact_path_pt /\ f.model.weights = NoWeights

\* a warm start that found its weights
C23_Loaded ==
    /\ opResult.op = "train" /\ opResult.status = "ok"
    /\ \E f \in files : f.model.weights = "drift" /\ f.model.learned = "flat"

\* C24: a successful train_global_model call with update_run returns that
\* row's id, leaves the number of rows and every other row as they were, keeps
\* the row's model_name, work_dir and artifact path where they were not null,
\* and replaces its hyperparameters, training asset ids and dates by those of
\* this training; a successful call without update_run adds one row at the end
\* and changes no row there was.
C24_RetrainInPlace ==
    [][(opResult'.op = "train" /\ opResult'.status = "ok" /\ nOps' = nOps + 1) =>
          \A rq \in {opResult'.args} :
          \A trained \in {train_global_model(rq).run} :
             IF rq.update_run # 0
             THEN /\ opResult'.run_id = rq.update_run
                  /\ Len(runs') = Len(runs)
                  /\ \A i \in 1..Len(runs) : i # rq.update_run => runs'[i] = runs[i]
                  /\ \A old \in {runs[rq.update_run]}, new \in {runs'[rq.update_run]} :
                        /\ old.model_name # <<>> => new.model_name = old.model_name
                        /\ old.work_dir # "" => new.work_dir = old.work_dir
                        /\ old.artifact_path_pt # <<>>
                              => new.artifact_path_pt = old.artifact_path_pt
                        /\ new.hyperparams_json = trained.hyperparams_json
                        /\ hyperparam(new, "input_chunk_length")
                              <= rq.hyperparams.input_chunk_length
                        /\ new.training_crypto_ids = opResult'.fit_series
                        /\ new.train_start_date = trained.train_start_date
                        /\ new.train_end_date = trained.train_end_date
                        /\ new.cutoff_date = trained.cutoff_date
             ELSE /\ opResult'.run_id = Len(runs) + 1
                  /\ Len(runs') = Len(runs) + 1
                  /\ \A i \in 1..Len(runs) : runs'[i] = runs[i]
                  /\ runs'[Len(runs) + 1] = trained
      ]_vars

\* a run retrained in place with other hyperparameters under its old name
C24_Witness ==
    /\ opResult.op = "train" /\ opResult.status = "ok"
    /\ opResult.args.update_run = 1 /\ opResult.run_id = 1 /\ Len(runs) = 1
    /\ hyperparam(runs[1], "input_chunk_length") = 6
    /\ runs[1].artifact_path_pt # <<>>
    /\ KeyOfRun(runs[1])[1] # runs[1].model_name

\* a run added next to the run there was
C24_Added ==
    /\ opResult.op = "train" /\ opResult.status = "ok"
    /\ opResult.args.update_run = 0 /\ opResult.run_id = 2 /\ Len(runs) = 2

\* C12: after any sequence of train_global_model calls no two ModelRun rows
\* share a model_name or an artifact path, and no two rows record the same
\* scope, family, cell type, horizon, transform and hyperparameters.
C12_UniqueRuns ==
    \A i, j \in 1..Len(runs) :
        i # j =>
            /\ runs[i].model_name # runs[j].model_name
            /\ runs[i].artifact_path_pt # runs[j].artifact_path_pt
            /\ <<runs[i].scope, runs[i].model_family, runs[i].cell_type,
                  runs[i].horizon_days, runs[i].transform, runs[i].hyperparams_json>>
               # <<runs[j].scope, runs[j].model_family, runs[j].cell_type,
                    runs[j].horizon_days, runs[j].transform, runs[j].hyperparams_json>>

\* C13: every ModelRun row written by train_global_model records the
\* model_name, work_dir and artifact path that canonical_model_key gives for
\* the scope, family, cell type, horizon, transform and hyperparameters the
\* row records.
C13_HashConsistent ==
    \A i \in 1..Len(runs) :
        KeyOfRun(runs[i]) = <<runs[i].model_name, runs[i].work_dir, runs[i].artifact_path_pt>>

\* the model file train_global_model saved for the run
ArtifactOf(run) == (CHOOSE f \in files : f.path = run.artifact_path_pt).model

\* C14: the run a training call has just written records a positive val_split
\* only if the fit that produced the saved model was given validation series
\* and completed with them; when validation was skipped before the fit or the
\* fit with validation was rejected and repeated without, it records 0.
C14_ValidationHonest ==
    (opResult.op = "train" /\ opResult.status = "ok") =>
        LET run == runs[opResult.run_id]
            with_val == opResult.use_val /\ opResult.args.fit_val = "ok"
        IN  /\ hyperparam(run, "val_split") > 0 =>
                  with_val /\ ArtifactOf(run).val_series
            /\ ~with_val => hyperparam(run, "val_split") = 0 /\ ~ArtifactOf(run).val_series

\* a fit with validation was rejected and repeated without: the run records
\* 0 although 0.3 was requested; and a run fitted with validation records it
C14_Witness ==
    /\ opResult.op = "train" /\ opResult.status = "ok"
    /\ opResult.use_val /\ opResult.args.fit_val = "reject"
    /\ opResult.args.hyperparams.val_split = Frac(3, 10)
    /\ hyperparam(runs[opResult.run_id], "val_split") = 0
    /\ \E i \in 1..Len(runs) : hyperparam(runs[i], "val_split") > 0

\* validation was requested and the shortest history left no room for it
C14_SkippedBeforeFit ==
    /\ opResult.op = "train" /\ opResult.status = "ok" /\ ~opResult.use_val
    /\ opResult.args.hyperparams.val_split = Frac(3, 10)

\* the elements of a sequence
Range(seq) == {seq[i] : i \in 1..Len(seq)}

\* C15: in the global-scope LSTM/GRU route, when no existing run is selected
\* the training call receives every submitted id that names an asset (the
\* page's asset and the extra ids, unknown ids left out); when an existing run
\* is selected with retrain, it receives the training_crypto_ids that run
\* recorded and not the submitted ids.
C15_TrainingSet ==
    (opResult.op = "train" /\ "form" \in DOMAIN opResult.args) =>
        LET a == opResult.args
        IN  /\ a.selected = 0 =>
                  Range(a.crypto_ids)
                      = ({a.form.crypto_id} \cup Range(a.form.crypto_ids)) \cap Assets
            /\ (a.selected # 0 /\ a.form.retrain) =>
                  Range(a.crypto_ids) = Range(a.selected_ids)

\* the best checkpoint of the run is there: the base file and a checkpoint
\* file whose name starts with best-
BestCheckpointThere(run) ==
    /\ \E f \in files : f.path = <<run.work_dir, ".", run.model_name, "_model.pth.tar">>
    /\ \E f \in files :
          /\ Len(f.path) = 6 /\ f.path[5] = "best-"
          /\ f.path[1] = run.work_dir /\ f.path[2] \in {".", "darts_logs"}
          /\ f.path[3] = run.model_name /\ f.path[4] = "checkpoints"

\* the saved artifact of the run is there with its sidecar
ArtifactThere(run) ==
    /\ \E f \in files : f.path = run.artifact_path_pt
    /\ \E f \in files : f.path = run.artifact_path_pt \o <<".ckpt">>

\* C16: load_global_model returns the model of the best checkpoint when the
\* base file and a checkpoint named best-... are there and load; otherwise, or
\* when that load fails, it loads the saved artifact provided the artifact and
\* its .ckpt sidecar are both there; with neither source it fails with the
\* missing-artifact error and returns no model.
C16_LoadOrder ==
    (opResult.op = "load" /\ opResult.args.prefer = "best_checkpoint") =>
        LET run == runs[opResult.args.model_run_id]
            loaded == opResult.loaded
            best == BestCheckpointThere(run) /\ ~load_from_checkpoint(run).raised
        IN  /\ best =>
                  /\ loaded.status = "ok" /\ loaded.source = "best_checkpoint"
                  /\ loaded.model = load_from_checkpoint(run).model
            /\ (~best /\ ArtifactThere(run)) =>
                  IF IsCorrupt(ContentOf(run.artifact_path_pt))
                  THEN loaded.status = "error" /\ loaded.error = LibraryError
                  ELSE /\ loaded.status = "ok" /\ loaded.source = "artifact"
                       /\ loaded.model = ContentOf(run.artifact_path_pt)
            /\ (~best /\ ~ArtifactThere(run)) =>
                  /\ loaded.status = "error" /\ loaded.error = ArtifactMissing
                  /\ "model" \notin DOMAIN loaded

\* the best checkpoint is there and cannot be read: the artifact was loaded
C16_Witness ==
    /\ opResult.op = "load" /\ opResult.args.prefer = "best_checkpoint"
    /\ BestCheckpointThere(runs[1]) /\ load_from_checkpoint(runs[1]).raised
    /\ opResult.loaded.status = "ok" /\ opResult.loaded.source = "artifact"
    /\ opResult.loaded.model.learned = "flat"

\* both sources are there and readable: the checkpoint was loaded
C16_BestLoaded ==
    /\ opResult.op = "load" /\ ArtifactThere(runs[1])
    /\ opResult.loaded.status = "ok" /\ opResult.loaded.source = "best_checkpoint"
    /\ opResult.loaded.model.learned = "drift"

\* C19: between a forecast job's delete of an asset's rows in a forecast table
\* and its insert of the new rows, no step other than that insert changes the
\* rows of that table.
C19_NoRacingWrite ==
    [][\A t \in Objs :
          (thr[t].pc = "between" /\ thr'[t].pc = "between") =>
              IF thr[t].key = "gru:1" THEN gru_forecasts' = gru_forecasts
              ELSE lstm_forecasts' = lstm_forecasts]_vars

\* C28: every stored forecast row's model_run_id is null or the id of a run
\* that exists, in every state the forecast jobs and the deletion requests
\* reach in any interleaving (0 stands for NULL).
C28_ReferentialIntegrity ==
    \A r \in lstm_forecasts \cup gru_forecasts :
       \/ r.model_run_id = 0
       \/ r.model_run_id \in 1..Len(runs) /\ runs[r.model_run_id] # DeletedRun

\* no deletion request: the rows the jobs store name their run
C28_JobsAlone ==
    (\A i \in 1..Len(runs) : runs[i] # DeletedRun) =>
        \A r \in lstm_forecasts \cup gru_forecasts :
           r.model_run_id \in 1..Len(runs) /\ runs[r.model_run_id] # DeletedRun

\* C29: after any sequence of training calls and deletion requests, every run
\* still in the registry (each was saved by a successful training call) can be
\* loaded the way predict_with_global_model loads it.
C29_RemainingRunsLoad ==
    \A i \in 1..Len(runs) :
       runs[i] # DeletedRun => load_global_model(runs[i], "best_checkpoint").status = "ok"

\* a deletion leaves loadable every other run that was loadable and whose
\* artifact path is not the deleted run's
C29_OtherPathsKept ==
    [][\A i, j \in 1..Len(runs) :
          (/\ runs[i] # DeletedRun /\ runs'[i] = DeletedRun
           /\ j # i /\ runs[j] # DeletedRun
           /\ runs[j].artifact_path_pt # runs[i].artifact_path_pt
           /\ load_global_model(runs[j], "best_checkpoint").status = "ok")
          => load_global_model(runs[j], "best_checkpoint")'.status = "ok"]_vars

(***************************************************************************)
(* services/coingecko.py, services/coincap.py                              *)
(***************************************************************************)
MaxRetry == 2           \* largest retry_count a client is constructed with

\* what requests.get does on one attempt: it raises requests.RequestException,
\* or it returns a response with a status and a JSON body
NetworkError == [failed |-> TRUE, status_code |-> 0, ok |-> FALSE, json |-> <<"None">>]
Response(status_code, json) ==
    [failed |-> FALSE, status_code |-> status_code, ok |-> status_code < 400, json |-> json]
Answers ==
    {NetworkError}
    \cup {Response(200, <<"json", id>>) : id \in {"bitcoin", "ethereum"}}
    \cup {Response(status_code, <<"json", "error">>) : status_code \in {404, 429, 499, 500}}

\* CoinGeckoClient.__init__ / CoincapClient.__init__: retry_count = max(retry_count, 0)
HttpClient(name, retry_count) ==
    [name |-> name, retry_count |-> IF retry_count > 0 THEN retry_count ELSE 0]

\* CoinGeckoError / CoincapError(message, status_code); status_code 0 stands for None
ClientError(client, message, status_code) ==
    [type |-> IF client.name = "coingecko" THEN "CoinGeckoError" ELSE "CoincapError",
     message |-> message, status_code |-> status_code]
NoError == [type |-> "", message |-> <<>>, status_code |-> 0]

\* how a call or a loop iteration ends
Continue == [kind |-> "continue", value |-> <<"None">>, error |-> NoError]
Raise(error) == [kind |-> "raise", value |-> <<"None">>, error |-> error]
Return(value) == [kind |-> "return", value |-> value, error |-> NoError]
NoOutcome == [kind |-> "none", value |-> <<"None">>, error |-> NoError]

\* a client that treats 404 like 429
get_iteration_retries_404(client, attempt, answer) ==
    IF answer.failed
    THEN IF attempt < client.retry_count THEN Continue
         ELSE Raise(ClientError(client, <<"Network error calling">>, 0))
    ELSE IF answer.status_code \in {404, 429} \/ answer.status_code >= 500
    THEN IF attempt < client.retry_count THEN Continue
         ELSE Raise(ClientError(client, <<"API error", answer.status_code>>,
                                answer.status_code))
    ELSE IF ~answer.ok
    THEN Raise(ClientError(client, <<"API error", answer.status_code>>, answer.status_code))
    ELSE Return(answer.json)

\* _get, the body of `for attempt in range(self.retry_count + 1)` (coingecko.py
\* 39-65, coincap.py 33-59) for what requests.get answered
get_iteration(client, attempt, answer) ==
    IF answer.failed
    THEN IF attempt < client.retry_count THEN Continue
         ELSE Raise(ClientError(client, <<"Network error calling">>, 0))
    ELSE IF answer.status_code = 404
    THEN Raise(ClientError(client, <<"resource not found">>, 404))
    ELSE IF answer.status_code \in {429} \/ answer.status_code >= 500
    THEN IF attempt < client.retry_count THEN Continue
         ELSE Raise(ClientError(client, <<"API error", answer.status_code>>,
                                answer.status_code))
    ELSE IF ~answer.ok
    THEN Raise(ClientError(client, <<"API error", answer.status_code>>, answer.status_code))
    ELSE Return(answer.json)

\* get_coin_basic (coingecko.py 71-94): a 404 of _get becomes None, any other
\* error is raised again, the body becomes the dict of id, symbol and name
get_coin_basic(got) ==
    IF got.kind = "raise"
    THEN IF got.error.status_code = 404 THEN Return(<<"None">>) ELSE got
    ELSE Return(<<"basic", got.value[2]>>)

\* get_asset_history (coincap.py 64-70): what _get returns or raises
get_asset_history(got) == got

\* a client of either service about to call _get, and the answers the next
\* MaxRetry + 1 attempts will get
HttpInit ==
    /\ szpc = "get"
    /\ szIn \in [client : {HttpClient(name, retry_count) :
                              name \in {"coingecko", "coincap"},
                              retry_count \in -1..MaxRetry},
                 answers : [1..(MaxRetry + 1) -> Answers]]
    /\ szOut = [attempt |-> 0, sent |-> 0, slept |-> <<>>, got |-> NoOutcome,
                result |-> NoOutcome]

\* one iteration of the loop of _get: the request, then continue after
\* time.sleep(retry_delay * (attempt + 1)), raise or return; line 67 / 61 is
\* the raise after a loop that ran out
HttpGet ==
    /\ szpc = "get"
    /\ \E step \in {get_iteration(szIn.client, szOut.attempt,
                                   szIn.answers[szOut.sent + 1])} :
          IF step.kind = "continue"
          THEN IF szOut.attempt + 1 < szIn.client.retry_count + 1
               THEN /\ szOut' = [szOut EXCEPT !.attempt = @ + 1, !.sent = @ + 1,
                                              !.slept = Append(@, szOut.attempt + 1)]
                    /\ szpc' = "get"
               ELSE /\ szOut' = [szOut EXCEPT !.attempt = @ + 1, !.sent = @ + 1,
                                              !.slept = Append(@, szOut.attempt + 1),
                                              !.got = Raise(ClientError(szIn.client,
                                                                        <<"API error">>, 0))]
                    /\ szpc' = "caller"
          ELSE /\ szOut' = [szOut EXCEPT !.sent = @ + 1, !.got = step]
               /\ szpc' = "caller"
    /\ UNCHANGED szIn

\* the public method that called _get handles what it returned or raised
HttpCaller ==
    /\ szpc = "caller"
    /\ szOut' = [szOut EXCEPT !.result = IF szIn.client.name = "coingecko"
                                         THEN get_coin_basic(szOut.got)
                                         ELSE get_asset_history(szOut.got)]
    /\ szpc' = "done"
    /\ UNCHANGED szIn

\* the answers the claim calls retried: a network error, 429 or a 5xx status
Retried(answer) ==
    answer.failed \/ answer.status_code = 429 \/ answer.status_code \in 500..599

\* the error class of the client
IsClientError(client, got) ==
    /\ got.kind = "raise"
    /\ got.error.type = IF client.name = "coingecko" THEN "CoinGeckoError"
                        ELSE "CoincapError"

\* what the policy says of a call of _get that has ended after szOut.sent
\* requests
PolicyKept ==
    LET client == szIn.client
        sent == szOut.sent
        got == szOut.got
        last == szIn.answers[sent]
    IN  /\ sent \in 1..(client.retry_count + 1)
        /\ \A i \in 1..(sent - 1) : Retried(szIn.answers[i])
        /\ Retried(last) => sent = client.retry_count + 1 /\ IsClientError(client, got)
        /\ (~last.failed /\ last.status_code = 404) =>
               /\ IsClientError(client, got) /\ got.error.status_code = 404
               /\ (szpc = "done" /\ client.name = "coingecko") =>
                      szOut.result = Return(<<"None">>)
        /\ (~last.failed /\ ~last.ok /\ last.status_code # 404 /\ ~Retried(last)) =>
               IsClientError(client, got) /\ got.error.status_code = last.status_code
        /\ (~last.failed /\ last.ok) => got = Return(last.json)

\* C30: a call of _get makes at most retry_count + 1 requests and ends; a 404
\* fails at once (get_coin_basic returns None for it); a network error, 429 or
\* 5xx is retried until the attempts are used up and then raises the client's
\* error; any other non-OK status raises at once; the first OK response is
\* returned.
C30_RetryPolicy ==
    /\ [](szOut.sent <= szIn.client.retry_count + 1)
    /\ [](szpc \in {"caller", "done"} => PolicyKept)
    /\ <>(szpc = "done")

\* two retried answers, then an OK response that is returned
C30_Witness ==
    /\ szpc = "done" /\ szOut.sent = 3
    /\ szIn.answers[1].failed /\ szIn.answers[2].status_code = 429
    /\ szOut.got = Return(szIn.answers[3].json)
    /\ szOut.slept = <<1, 2>>

\* a 404 after a retried answer ends the call of get_coin_basic with None
C30_NotFound ==
    /\ szpc = "done" /\ szOut.sent = 2 /\ szIn.client.name = "coingecko"
    /\ szIn.answers[2].status_code = 404
    /\ szOut.result = Return(<<"None">>)

(***************************************************************************)
(* Specifications                                                          *)
(***************************************************************************)
Init == JobsInit /\ KeyIdle /\ SizingIdle /\ StoreIdle

\* the job runner
Next ==
    \/ \E c \in Callers, k \in Keys : StartJobAcquire(c, k) /\ UNCHANGED <<keyVars, szVars, storeVars>>
    \/ \E c \in Callers : StartJobFind(c) /\ UNCHANGED <<keyVars, szVars, storeVars>>
    \/ \E c \in Callers : StartJobBusy(c) /\ UNCHANGED <<keyVars, szVars, storeVars>>
    \/ \E c \in Callers : StartJobExisting(c) /\ UNCHANGED <<keyVars, szVars, storeVars>>
    \/ \E c \in Callers : StartJobCreate(c) /\ UNCHANGED <<keyVars, szVars, storeVars>>
    \/ \E c \in Callers : StartJobSpawn(c) /\ UNCHANGED <<keyVars, szVars, storeVars>>
    \/ \E t \in Objs : RunJobInvoke(t) /\ UNCHANGED <<keyVars, szVars, storeVars>>
    \/ \E t \in Objs, r \in TaskResults : RunJobReturn(t, r) /\ UNCHANGED <<keyVars, szVars, storeVars>>
    \/ \E t \in Objs, e \in TaskErrors : RunJobRaise(t, e) /\ UNCHANGED <<keyVars, szVars, storeVars>>
    \/ \E t \in Objs : RunJobAcquire(t) /\ UNCHANGED <<keyVars, szVars, storeVars>>
    \/ \E t \in Objs : RunJobRecord(t) /\ UNCHANGED <<keyVars, szVars, storeVars>>

Spec == Init /\ [][Next]_vars

\* a request thread inside start_job takes its next step
CallerStep(c) ==
    /\ \/ StartJobFind(c) \/ StartJobBusy(c) \/ StartJobExisting(c)
       \/ StartJobCreate(c) \/ StartJobSpawn(c)
    /\ UNCHANGED <<keyVars, szVars, storeVars>>

\* a background thread takes its next step outside the lock acquisition; its
\* task terminates, by returning or by raising
ThreadStep(t) ==
    /\ \/ RunJobInvoke(t)
       \/ \E r \in TaskResults : RunJobReturn(t, r)
       \/ \E e \in TaskErrors : RunJobRaise(t, e)
       \/ RunJobRecord(t)
    /\ UNCHANGED <<keyVars, szVars, storeVars>>

\* a background thread enters `with _JOB_LOCK`
ThreadAcquire(t) == RunJobAcquire(t) /\ UNCHANGED <<keyVars, szVars, storeVars>>

\* the job runner under a fair scheduler: every thread that can run does, and
\* a thread waiting for the lock gets it when it is free again and again
Fairness ==
    /\ \A c \in Starters : WF_vars(CallerStep(c))
    /\ \A t \in Objs : WF_vars(ThreadStep(t))
    /\ \A t \in Objs : SF_vars(ThreadAcquire(t))
SpecLiveNext ==
    \/ \E c \in Starters, k \in Keys : StartJobAcquire(c, k) /\ UNCHANGED <<keyVars, szVars, storeVars>>
    \/ \E c \in Starters : CallerStep(c)
    \/ \E t \in Objs : ThreadStep(t)
    \/ \E t \in Objs : ThreadAcquire(t)
SpecLive == Init /\ [][SpecLiveNext]_vars /\ Fairness

\* forecast jobs started by one request thread, and the model-deletion handler
SpecWritesInit == JobsInit /\ KeyIdle /\ SizingIdle /\ WritesInit
SpecWritesNext ==
    \/ \E c \in Starters, k \in Keys : StartJobAcquire(c, k) /\ UNCHANGED <<keyVars, szVars, storeVars>>
    \/ \E c \in Starters : CallerStep(c)
    \/ \E t \in Objs : RunJobInvoke(t) /\ UNCHANGED <<keyVars, szVars, storeVars>>
    \/ \E t \in Objs : ForecastDelete(t) /\ UNCHANGED <<keyVars, szVars>>
    \/ \E t \in Objs : ForecastInsert(t) /\ UNCHANGED <<keyVars, szVars>>
    \/ \E t \in Objs : ForecastInsertRejected(t) /\ UNCHANGED <<keyVars, szVars>>
    \/ \E t \in Objs, e \in TaskErrors : RunJobRaise(t, e) /\ UNCHANGED <<keyVars, szVars, storeVars>>
    \/ \E t \in Objs : ThreadAcquire(t)
    \/ \E t \in Objs : RunJobRecord(t) /\ UNCHANGED <<keyVars, szVars, storeVars>>
    \/ \E run_id \in 1..2 : DeleteGlobalModelRun(run_id) /\ UNCHANGED <<keyVars, szVars>>
SpecWrites == SpecWritesInit /\ [][SpecWritesNext]_vars

\* the job runner with one request thread that starts jobs and one that polls
\* their status
SpecStatusNext ==
    \/ \E c \in Starters, k \in Keys : StartJobAcquire(c, k) /\ UNCHANGED <<keyVars, szVars, storeVars>>
    \/ \E c \in Starters : StartJobFind(c) /\ UNCHANGED <<keyVars, szVars, storeVars>>
    \/ \E c \in Starters : StartJobBusy(c) /\ UNCHANGED <<keyVars, szVars, storeVars>>
    \/ \E c \in Starters : StartJobExisting(c) /\ UNCHANGED <<keyVars, szVars, storeVars>>
    \/ \E c \in Starters : StartJobCreate(c) /\ UNCHANGED <<keyVars, szVars, storeVars>>
    \/ \E c \in Starters : StartJobSpawn(c) /\ UNCHANGED <<keyVars, szVars, storeVars>>
    \/ \E c \in Pollers, k \in Keys : GetJobStatusAcquire(c, k) /\ UNCHANGED <<keyVars, szVars, storeVars>>
    \/ \E c \in Pollers : GetJobStatusReturn(c) /\ UNCHANGED <<keyVars, szVars, storeVars>>
    \/ \E t \in Objs : RunJobInvoke(t) /\ UNCHANGED <<keyVars, szVars, storeVars>>
    \/ \E t \in Objs, r \in TaskResults : RunJobReturn(t, r) /\ UNCHANGED <<keyVars, szVars, storeVars>>
    \/ \E t \in Objs, e \in TaskErrors : RunJobRaise(t, e) /\ UNCHANGED <<keyVars, szVars, storeVars>>
    \/ \E t \in Objs : RunJobAcquire(t) /\ UNCHANGED <<keyVars, szVars, storeVars>>
    \/ \E t \in Objs : RunJobRecord(t) /\ UNCHANGED <<keyVars, szVars, storeVars>>
SpecStatus == Init /\ [][SpecStatusNext]_vars

\* canonical_model_key on pairs of dicts
SpecKeyInit == JobsInit /\ KeyInit /\ SizingIdle /\ StoreIdle
SpecKeyNext == KeyCalls /\ UNCHANGED <<jobVars, szVars, storeVars>>
SpecKey == SpecKeyInit /\ [][SpecKeyNext]_vars

\* the sizing of a per-asset and of a global training
SpecSizingInit == JobsInit /\ KeyIdle /\ SizingInit /\ StoreIdle
SpecSizingNext ==
    \/ TrainRnnSizing /\ UNCHANGED <<jobVars, keyVars, storeVars>>
    \/ ResolveSizing /\ UNCHANGED <<jobVars, keyVars, storeVars>>
SpecSizing == SpecSizingInit /\ [][SpecSizingNext]_vars

\* _resolve_val_split on its own
SpecValSplitInit == JobsInit /\ KeyIdle /\ ValSplitInit /\ StoreIdle
SpecValSplitNext == ResolveValSplit /\ UNCHANGED <<jobVars, keyVars, storeVars>>
SpecValSplit == SpecValSplitInit /\ [][SpecValSplitNext]_vars

\* one training call
SpecTrainInit ==
    JobsInit /\ KeyIdle /\ SizingIdle /\ StoreInit([Assets -> HistoryKinds], {"wavy"})
SpecTrainNext == TrainOnce /\ UNCHANGED <<jobVars, keyVars, szVars>>
SpecTrain == SpecTrainInit /\ [][SpecTrainNext]_vars

\* training and forecasting calls on a store where the first asset has a long
\* history and the second a short one
SpecRegistryInit ==
    /\ JobsInit /\ KeyIdle /\ SizingIdle
    /\ StoreInit({k \in [Assets -> {"long", "sparse"}] : k[1] = "long"}, {"wavy"})
SpecRegistryNext == TrainRegistered /\ UNCHANGED <<jobVars, keyVars, szVars>>
SpecRegistry == SpecRegistryInit /\ [][SpecRegistryNext]_vars

\* calls of the HTTP clients
SpecHttpInit == JobsInit /\ KeyIdle /\ StoreIdle /\ HttpInit
SpecHttpNext ==
    \/ HttpGet /\ UNCHANGED <<jobVars, keyVars, storeVars>>
    \/ HttpCaller /\ UNCHANGED <<jobVars, keyVars, storeVars>>
SpecHttp == SpecHttpInit /\ [][SpecHttpNext]_vars
\* the thread that makes the call keeps running: requests.get has a timeout
\* and time.sleep returns
SpecHttpLive == SpecHttp /\ WF_vars(SpecHttpNext)

\* training calls and deletion requests on one registry
SpecDeleteNext ==
    \/ TrainAmongDeletions /\ UNCHANGED <<jobVars, keyVars, szVars>>
    \/ \E run_id \in 1..MaxTrainings : DeleteGlobalModelRun(run_id) /\ UNCHANGED <<keyVars, szVars>>
SpecDelete == SpecRegistryInit /\ [][SpecDeleteNext]_vars

\* training calls followed statement by statement
SpecFitNext ==
    \/ TrainStart /\ UNCHANGED <<jobVars, keyVars, szVars>>
    \/ TrainFit /\ UNCHANGED <<jobVars, keyVars, szVars>>
    \/ TrainRetry /\ UNCHANGED <<jobVars, keyVars, szVars>>
    \/ TrainSave /\ UNCHANGED <<jobVars, keyVars, szVars>>
    \/ TrainCommit /\ UNCHANGED <<jobVars, keyVars, szVars>>
SpecFit == SpecRegistryInit /\ [][SpecFitNext]_vars

\* warm-started training calls on a registry whose files may be gone
SpecWarmInit == JobsInit /\ KeyIdle /\ SizingIdle /\ WarmInit
SpecWarmNext == TrainWarm /\ UNCHANGED <<jobVars, keyVars, szVars>>
SpecWarm == SpecWarmInit /\ [][SpecWarmNext]_vars

\* _compute_forecast given any points by the library
SpecMergeInit == JobsInit /\ KeyIdle /\ SizingIdle /\ MergeInit
SpecMergeNext == ComputeForecastRows /\ UNCHANGED <<jobVars, keyVars, szVars>>
SpecMerge == SpecMergeInit /\ [][SpecMergeNext]_vars

SpecRouteInit ==
    /\ JobsInit /\ KeyIdle /\ SizingIdle
    /\ StoreInit([Assets -> {"long"}], {"wavy"})
SpecRouteNext ==
    \/ SeedRun /\ UNCHANGED <<jobVars, keyVars, szVars>>
    \/ RouteTrain /\ UNCHANGED <<jobVars, keyVars, szVars>>
    \/ RoutePredict /\ UNCHANGED <<jobVars, keyVars, szVars>>
SpecRoute == SpecRouteInit /\ [][SpecRouteNext]_vars

SpecLoadInit == JobsInit /\ KeyIdle /\ SizingIdle /\ LoadInit
SpecLoadNext == LoadGlobalModel /\ UNCHANGED <<jobVars, keyVars, szVars>>
SpecLoad == SpecLoadInit /\ [][SpecLoadNext]_vars

SpecForecastInit ==
    JobsInit /\ KeyIdle /\ SizingIdle
        /\ StoreInit({k \in [Assets -> HistoryKinds] :
                          k[1] = "long" /\ k[2] \in {"six", "two"}}, Patterns)
SpecForecastNext ==
    \/ TrainForForecast /\ UNCHANGED <<jobVars, keyVars, szVars>>
    \/ Predict /\ UNCHANGED <<jobVars, keyVars, szVars>>
SpecForecast == SpecForecastInit /\ [][SpecForecastNext]_vars

====
